---- MODULE Spec2Model ----
(***************************************************************************)
(* Verification model of the Counter Bridge gateway:                       *)
(*   - the SysV MWMR ring queue          (gateway/include/hftbase_shm.h)   *)
(*   - the bridge's position ledger and order routing                      *)
(*                                       (gateway/src/counter_bridge.cpp)  *)
(*   - the simulator plugin   (gateway/plugins/simulator/src/...)          *)
(*   - the CTP plugin's order callbacks (gateway/plugins/ctp/src/...)      *)
(*                                                                         *)
(* One module, several specifications over the same variables:             *)
(*   SpecQ    the ring queue with concurrent writers and one consumer      *)
(*   SpecQSeq, SpecQFlow  the ring filled then drained, under flow control *)
(*   SpecSim  the bridge routing to the simulator plugin                   *)
(*   SpecCtp  the bridge routing to the CTP plugin                         *)
(*   SpecFn, SpecPos  single calls of the program's functions              *)
(*   SpecLock the bridge's threads at the level of their two mutexes       *)
(*   SpecQueryLive  the CTP plugin's synchronous queries                   *)
(***************************************************************************)
EXTENDS Integers, Sequences, FiniteSets, TLC

(***************************************************************************)
(* Bounds of the model                                                     *)
(***************************************************************************)
\* capacity requested from MWMRQueue::Create (rounded up by next_pow2)
QRequested == 2
\* number of threads that call enqueue concurrently
NumWriters == 2
\* the writers stop claiming once head has reached this value
MaxHead == 6
\* payload values a writer may pass to enqueue
NumVals == 2
\* number of requests the strategy writes to the request queue
MaxOrders == 2
\* largest Quantity of a request (quantities are 1 .. MaxQty)
MaxQty == 2
\* overnight position a position file may preload into a ledger bucket
InitPos == 2
\* simulator configuration (YAML): risk limits and starting balance
max_position_per_symbol == 3
max_daily_loss == 1
initial_balance == 3
\* the limit price the strategy puts on its requests, in ticks
LimitPrice == 10
\* largest bucket value and largest quantity passed to a single function call
MaxBucket == 3
MaxCallQty == 4
\* a malformed request carries a Quantity in -MaxBadQty .. 0
MaxBadQty == 1
\* number of trades booked one after the other on a position table
MaxTrades == 3
\* largest bucket value of a ledger with several symbols
MaxBook == 1
\* number of calls of the CTP plugin's query functions
MaxQueries == 2

VARIABLES
    \* ---- MWMR ring queue (hftbase_shm.h) ----
    head,        \* MWMRHeader::head, the next sequence number to claim
    m_updates,   \* the slot array: index -> [d1, d2, seqNo]
    m_tail,      \* the consumer's process-local cursor
    wpc,         \* writer -> position inside enqueue
    wHead,       \* writer -> myHead, the claimed sequence number
    wVal,        \* writer -> the value passed to enqueue
    cpc,         \* the consumer's position inside isEmpty / dequeuePtr
    cbuf,        \* the consumer's output buffer (the two payload words)
    sent,        \* history: sequence number -> value passed to that enqueue
    deq          \* history: the consumer's dequeues, <<seqNo read, d1, d2>>

qvars == <<head, m_updates, m_tail, wpc, wHead, wVal, cpc, cbuf, sent, deq>>

VARIABLES
    \* ---- Counter Bridge (counter_bridge.cpp) ----
    g_mapContractPos, \* symbol -> contractPos (the position ledger)
    g_order_map,      \* broker order id -> CachedOrderInfo
    respQ,            \* the response queue, in order of claimed sequence number
    dpc,              \* position of the request-drain thread
    dreq,             \* the RequestMsg the drain thread is processing
    dflag,            \* openCloseFlag computed for dreq
    dbid,             \* broker_order_id returned by SendOrder
    nextOID,          \* the OrderID the strategy gives its next request
    cbk,              \* thread -> frame of OnBrokerOrderCallback it is running
    cbCount,          \* history: number of order callbacks invoked so far
    delta,            \* history: OrderID -> net ledger change made for that order
    ledger0,          \* history: the ledger as loaded at start-up
    listing,          \* environment: symbol -> the exchange it is listed on
    g_brokers,        \* the names of the broker plugins loaded at start-up
    dispatch          \* history: OrderID -> the request dequeued with it, the
                      \* quantity requested, and the flag SetCombOffsetFlag
                      \* derived and the ledger change it made at dispatch

bvars == <<g_mapContractPos, g_order_map, respQ, dpc, dreq, dflag, dbid, nextOID,
           cbk, cbCount, delta, ledger0, listing, g_brokers, dispatch>>

VARIABLES
    \* ---- Simulator plugin (simulator_plugin.cpp) ----
    m_order_ref,      \* next order sequence number
    m_orders,         \* order id -> InternalOrder
    m_positions,      \* <<symbol, LONG|SHORT>> -> InternalPosition
    m_balance, m_available, m_margin, m_commission, m_close_profit, m_daily_pnl,
    m_trades,         \* the trade log
    m_trade_count,
    m_order_mutex, m_position_mutex, m_account_mutex,  \* {} or {owner thread}
    sreq,             \* SendOrder: modified_request
    srej,             \* SendOrder: whether CheckRisk failed
    tpc,              \* order id -> position of its ProcessOrderImmediate thread
    ttrade,           \* order id -> the TradeInfo its thread has built
    xpc,              \* position of a thread calling CancelOrder
    mode,             \* m_config.mode
    plugEv            \* history: order id -> the callbacks the plugin fired for
                      \* it and the state updates it made for it, in order

svars == <<m_order_ref, m_orders, m_positions, m_balance, m_available, m_margin,
           m_commission, m_close_profit, m_daily_pnl, m_trades, m_trade_count,
           m_order_mutex, m_position_mutex, m_account_mutex, sreq, srej, tpc,
           ttrade, xpc, mode, plugEv>>

VARIABLES
    \* ---- CTP plugin (ctp_td_plugin.cpp) and the CTP front it talks to ----
    m_logged_in,            \* CTPTDPlugin::m_logged_in
    m_settlement_confirmed, \* CTPTDPlugin::m_settlement_confirmed
    ctp_order_ref,          \* CTPTDPlugin::m_order_ref
    m_order_cache,          \* order id -> OrderInfo
    front                   \* environment: order id -> the CThostFtdcOrderField
                            \* the front holds for the order

cvars == <<m_logged_in, m_settlement_confirmed, ctp_order_ref, m_order_cache, front>>

VARIABLES
    \* ---- a single call of one of the program's functions ----
    call                    \* the function called, its arguments and its result

fvars == <<call>>

VARIABLES
    \* ---- the bridge's two mutexes and the threads that take them ----
    g_posLock,        \* {} or {the thread that holds the ledger lock}
    g_orders_mutex,   \* {} or {the thread that holds the cached-order lock}
    orp,              \* the drain thread's position in OrderRequestProcessor
    obc               \* thread -> its position in OnBrokerOrderCallback

lvars == <<g_posLock, g_orders_mutex, orp, obc>>

VARIABLES
    \* ---- the CTP plugin's synchronous queries ----
    m_query_mutex,    \* {} or {the thread that holds m_query_mutex}
    m_query_finished, \* CTPTDPlugin::m_query_finished
    qfn,              \* the query function the calling thread is in
    qpc,              \* the calling thread's position in it
    qres,             \* what the last call returned: "none", "true", "false"
    ncalls,           \* history: number of query calls made so far
    pending,          \* environment: query requests the counter has not answered
    rpc               \* the SPI thread's position in OnRspQry...

yvars == <<m_query_mutex, m_query_finished, qfn, qpc, qres, ncalls, pending, rpc>>

vars == <<qvars, bvars, svars, cvars, fvars, lvars, yvars>>

\* what an action of the queue, of the bridge, of the simulator, of the CTP
\* plugin leaves alone
notQueue == <<bvars, svars, cvars, fvars, lvars, yvars>>
notBridge == <<qvars, svars, cvars, fvars, lvars, yvars>>
notSim == <<qvars, cvars, fvars, lvars, yvars>>
notCtp == <<qvars, svars, fvars, lvars, yvars>>
\* and what a step of the bridge's locking, of a query leaves alone
notLock == <<qvars, bvars, svars, cvars, fvars, yvars>>
notQuery == <<qvars, bvars, svars, cvars, fvars, lvars>>

(***************************************************************************)
(* Bit arithmetic on naturals, as the C++ operators >>, | and &            *)
(***************************************************************************)
RECURSIVE Shr(_, _)
Shr(v, k) == IF k = 0 \/ v = 0 THEN v ELSE Shr(v \div 2, k - 1)

RECURSIVE BitOr(_, _)
BitOr(a, b) ==
    IF a = 0 THEN b
    ELSE IF b = 0 THEN a
    ELSE (IF a % 2 = 1 \/ b % 2 = 1 THEN 1 ELSE 0) + 2 * BitOr(a \div 2, b \div 2)

RECURSIVE BitAnd(_, _)
BitAnd(a, b) ==
    IF a = 0 \/ b = 0 THEN 0
    ELSE (IF a % 2 = 1 /\ b % 2 = 1 THEN 1 ELSE 0) + 2 * BitAnd(a \div 2, b \div 2)

\* hftbase_shm.h: next_pow2
next_pow2(v) ==
    IF v <= 0 THEN 1
    ELSE LET v0 == v - 1
             v1 == BitOr(v0, Shr(v0, 1))
             v2 == BitOr(v1, Shr(v1, 2))
             v3 == BitOr(v2, Shr(v2, 4))
             v4 == BitOr(v3, Shr(v3, 8))
             v5 == BitOr(v4, Shr(v4, 16))
             v6 == BitOr(v5, Shr(v5, 32))
         IN  v6 + 1

\* MWMRQueue::init: m_size and m_mask
m_size == next_pow2(QRequested)
m_mask == m_size - 1

Writers == 1 .. NumWriters
Vals == 1 .. NumVals

\* the slot a sequence number maps to: m_updates + (seq & m_mask)
SlotOf(seq) == BitAnd(seq, m_mask)

\* a consumer cursor that starts at 0 instead of 1
QInit_TailZero ==
    /\ head = 1
    /\ m_updates = [i \in 0 .. m_mask |-> [d1 |-> 0, d2 |-> 0, seqNo |-> 0]]
    /\ m_tail = 0
    /\ wpc = [w \in Writers |-> "idle"]
    /\ wHead = [w \in Writers |-> 0]
    /\ wVal = [w \in Writers |-> 0]
    /\ cpc = "check"
    /\ cbuf = <<0, 0>>
    /\ sent = <<>>
    /\ deq = <<>>

(***************************************************************************)
(* MWMRQueue::Create: head = 1, slots zeroed, m_tail = 1                   *)
(***************************************************************************)
QInit ==
    /\ head = 1
    /\ m_updates = [i \in 0 .. m_mask |-> [d1 |-> 0, d2 |-> 0, seqNo |-> 0]]
    /\ m_tail = 1
    /\ wpc = [w \in Writers |-> "idle"]
    /\ wHead = [w \in Writers |-> 0]
    /\ wVal = [w \in Writers |-> 0]
    /\ cpc = "check"
    /\ cbuf = <<0, 0>>
    /\ sent = <<>>
    /\ deq = <<>>

(***************************************************************************)
(* MWMRQueue::enqueue, one action per memory access                        *)
(***************************************************************************)
\* myHead = head.fetch_add(1)
EnqClaim(w, v) ==
    /\ wpc[w] = "idle"
    /\ head < MaxHead
    /\ wHead' = [wHead EXCEPT ![w] = head]
    /\ wVal' = [wVal EXCEPT ![w] = v]
    /\ head' = head + 1
    /\ sent' = Append(sent, v)
    /\ wpc' = [wpc EXCEPT ![w] = "copy1"]
    /\ UNCHANGED <<m_updates, m_tail, cpc, cbuf, deq>>
    /\ UNCHANGED notQueue

\* memcpy(&slot->data, &value, sizeof(T)): first word
EnqCopy1(w) ==
    /\ wpc[w] = "copy1"
    /\ m_updates' = [m_updates EXCEPT ![SlotOf(wHead[w])].d1 = wVal[w]]
    /\ wpc' = [wpc EXCEPT ![w] = "copy2"]
    /\ UNCHANGED <<head, m_tail, wHead, wVal, cpc, cbuf, sent, deq>>
    /\ UNCHANGED notQueue

\* memcpy: second word
EnqCopy2(w) ==
    /\ wpc[w] = "copy2"
    /\ m_updates' = [m_updates EXCEPT ![SlotOf(wHead[w])].d2 = wVal[w]]
    /\ wpc' = [wpc EXCEPT ![w] = "seq"]
    /\ UNCHANGED <<head, m_tail, wHead, wVal, cpc, cbuf, sent, deq>>
    /\ UNCHANGED notQueue

\* a lapping writer that leaves the seqNo of a slot already written
EnqStoreSeq_KeepFirst(w) ==
    /\ wpc[w] = "seq"
    /\ m_updates' = [m_updates EXCEPT ![SlotOf(wHead[w])].seqNo =
                                          IF @ = 0 THEN wHead[w] ELSE @]
    /\ wpc' = [wpc EXCEPT ![w] = "idle"]
    /\ UNCHANGED <<head, m_tail, wHead, wVal, cpc, cbuf, sent, deq>>
    /\ UNCHANGED notQueue

\* slot->seqNo = myHead
EnqStoreSeq(w) ==
    /\ wpc[w] = "seq"
    /\ m_updates' = [m_updates EXCEPT ![SlotOf(wHead[w])].seqNo = wHead[w]]
    /\ wpc' = [wpc EXCEPT ![w] = "idle"]
    /\ UNCHANGED <<head, m_tail, wHead, wVal, cpc, cbuf, sent, deq>>
    /\ UNCHANGED notQueue

(***************************************************************************)
(* The single consumer: isEmpty, then dequeuePtr                           *)
(***************************************************************************)
\* an emptiness test on the claimed head instead of the slot's seqNo
isEmpty_HeadBased == head <= m_tail

\* MWMRQueue::isEmpty
isEmpty == m_updates[SlotOf(m_tail)].seqNo < m_tail

\* if (!isEmpty()) ...: the consumer goes on to dequeuePtr only when the
\* slot under its cursor carries a sequence number >= m_tail
ConsCheck ==
    /\ cpc = "check"
    /\ ~isEmpty
    /\ cpc' = "copy1"
    /\ UNCHANGED <<head, m_updates, m_tail, wpc, wHead, wVal, cbuf, sent, deq>>
    /\ UNCHANGED notQueue

\* dequeuePtr: memcpy(data, &slot->data, sizeof(T)), first word
ConsCopy1 ==
    /\ cpc = "copy1"
    /\ cbuf' = <<m_updates[SlotOf(m_tail)].d1, cbuf[2]>>
    /\ cpc' = "copy2"
    /\ UNCHANGED <<head, m_updates, m_tail, wpc, wHead, wVal, sent, deq>>
    /\ UNCHANGED notQueue

\* dequeuePtr: memcpy, second word
ConsCopy2 ==
    /\ cpc = "copy2"
    /\ cbuf' = <<cbuf[1], m_updates[SlotOf(m_tail)].d2>>
    /\ cpc' = "tail"
    /\ UNCHANGED <<head, m_updates, m_tail, wpc, wHead, wVal, sent, deq>>
    /\ UNCHANGED notQueue

\* dequeuePtr: m_tail = slot->seqNo + 1 (the slot's seqNo is read again here)
ConsAdvance ==
    /\ cpc = "tail"
    /\ LET s == m_updates[SlotOf(m_tail)].seqNo IN
        /\ m_tail' = s + 1
        /\ deq' = Append(deq, <<s, cbuf[1], cbuf[2]>>)
    /\ cpc' = "check"
    /\ UNCHANGED <<head, m_updates, wpc, wHead, wVal, cbuf, sent>>
    /\ UNCHANGED notQueue

QNext ==
    \/ \E w \in Writers, v \in Vals : EnqClaim(w, v)
    \/ \E w \in Writers : EnqCopy1(w)
    \/ \E w \in Writers : EnqCopy2(w)
    \/ \E w \in Writers : EnqStoreSeq(w)
    \/ ConsCheck
    \/ ConsCopy1
    \/ ConsCopy2
    \/ ConsAdvance

(***************************************************************************)
(* Exact arithmetic for the C++ double fields: a value is <<num, den>>     *)
(* with den > 0, in lowest terms                                           *)
(***************************************************************************)
Abs(x) == IF x < 0 THEN -x ELSE x

RECURSIVE GCD(_, _)
GCD(a, b) == IF b = 0 THEN a ELSE GCD(b, a % b)

LCM(a, b) == (a \div GCD(a, b)) * b

RNorm(n, d) == LET g == GCD(Abs(n), d) IN <<n \div g, d \div g>>

R(i) == <<i, 1>>

RAdd(a, b) ==
    LET l == LCM(a[2], b[2])
    IN  RNorm(a[1] * (l \div a[2]) + b[1] * (l \div b[2]), l)

RNeg(a) == <<-a[1], a[2]>>

RSub(a, b) == RAdd(a, RNeg(b))

RMul(a, b) ==
    LET g1 == GCD(Abs(a[1]), b[2])
        g2 == GCD(Abs(b[1]), a[2])
    IN  RNorm((a[1] \div g1) * (b[1] \div g2), (a[2] \div g2) * (b[2] \div g1))

\* a / k for an integer k > 0
RDivInt(a, k) == RMul(a, <<1, k>>)

RLt(a, b) ==
    LET l == LCM(a[2], b[2])
    IN  a[1] * (l \div a[2]) < b[1] * (l \div b[2])

(***************************************************************************)
(* Wire constants (hftbase_types.h) and bridge constants                   *)
(***************************************************************************)
NEW_ORDER_CONFIRM == 0
CANCEL_ORDER_CONFIRM == 3
TRADE_CONFIRM == 4
ORDER_ERROR == 5
ORS_REJECT == 8
RMS_REJECT == 9

CHINA_SHFE == 57
CHINA_CFFEX == 58
CHINA_ZCE == 59
CHINA_DCE == 60
CHINA_GFEX == 61

SIDE_BUY == "B"
SIDE_SELL == "S"

OPEN_ORDER == 3
CLOSE_TODAY_FLAG == 1
CLOSE_YESTD_FLAG == 2

\* the inputs the strategy chooses for a request
Symbols == {"ag2506"}
ExchangeTypes == {CHINA_SHFE, CHINA_DCE}
Sides == {SIDE_BUY, SIDE_SELL}
StrategyIDs == {7}

\* RequestMsg: the fields the bridge reads
Requests(oid) ==
    {r \in [OrderID : {oid}, StrategyID : StrategyIDs, Symbol : Symbols,
            Transaction_Type : Sides, Quantity : 1 .. MaxQty,
            Exchange_Type : ExchangeTypes, Price : {LimitPrice}] :
        r.Exchange_Type = listing[r.Symbol]}

\* the threads of the bridge process: the request-drain thread, a thread
\* calling CancelOrder, the CTP SPI thread, and one detached thread per
\* simulator order (numbered by the order's sequence number)
DrainT == 0
CancelT == -1
SpiT == -2
TaskIds == 1 .. MaxOrders
Threads == {DrainT, CancelT, SpiT} \cup TaskIds

(***************************************************************************)
(* Position ledger (contractPos, SetCombOffsetFlag, updatePosition)        *)
(***************************************************************************)
\* struct contractPos, default-initialised
ZeroPos == [ONLongPos |-> 0, todayLongPos |-> 0, ONShortPos |-> 0, todayShortPos |-> 0]

\* SetCombOffsetFlag without its comparison of the quantity with the today
\* bucket: every order closes today's opposite position
SetCombOffsetFlag_Unchecked(pos, side, qty, exchangeType) ==
    IF side = SIDE_BUY
    THEN [flag |-> IF exchangeType = CHINA_SHFE THEN CLOSE_TODAY_FLAG ELSE CLOSE_YESTD_FLAG,
          pos |-> [pos EXCEPT !.todayShortPos = @ - qty]]
    ELSE [flag |-> IF exchangeType = CHINA_SHFE THEN CLOSE_TODAY_FLAG ELSE CLOSE_YESTD_FLAG,
          pos |-> [pos EXCEPT !.todayLongPos = @ - qty]]

\* SetCombOffsetFlag: the flag and the symbol's contractPos after the call
SetCombOffsetFlag(pos, side, qty, exchangeType) ==
    LET isSHFE == (exchangeType = CHINA_SHFE) IN
    IF side = SIDE_BUY THEN
        IF qty <= pos.todayShortPos THEN
            [flag |-> IF isSHFE THEN CLOSE_TODAY_FLAG ELSE CLOSE_YESTD_FLAG,
             pos |-> [pos EXCEPT !.todayShortPos = @ - qty]]
        ELSE IF qty <= pos.ONShortPos THEN
            [flag |-> CLOSE_YESTD_FLAG,
             pos |-> [pos EXCEPT !.ONShortPos = @ - qty]]
        ELSE [flag |-> OPEN_ORDER, pos |-> pos]
    ELSE
        IF qty <= pos.todayLongPos THEN
            [flag |-> IF isSHFE THEN CLOSE_TODAY_FLAG ELSE CLOSE_YESTD_FLAG,
             pos |-> [pos EXCEPT !.todayLongPos = @ - qty]]
        ELSE IF qty <= pos.ONLongPos THEN
            [flag |-> CLOSE_YESTD_FLAG,
             pos |-> [pos EXCEPT !.ONLongPos = @ - qty]]
        ELSE [flag |-> OPEN_ORDER, pos |-> pos]

\* a ledger update that credits every trade, whatever the cached flag
updatePosition_CreditsEveryTrade(pos, resp, info) ==
    IF resp.Response_Type = TRADE_CONFIRM THEN
        IF resp.Side = SIDE_BUY
        THEN [pos EXCEPT !.todayLongPos = @ + resp.Quantity]
        ELSE [pos EXCEPT !.todayShortPos = @ + resp.Quantity]
    ELSE pos

\* updatePosition: the symbol's contractPos after applying a response
updatePosition(pos, resp, info) ==
    IF resp.Response_Type = TRADE_CONFIRM THEN
        IF info.openCloseFlag = OPEN_ORDER THEN
            IF resp.Side = SIDE_BUY
            THEN [pos EXCEPT !.todayLongPos = @ + resp.Quantity]
            ELSE [pos EXCEPT !.todayShortPos = @ + resp.Quantity]
        ELSE pos
    ELSE IF resp.Response_Type \in {ORDER_ERROR, ORS_REJECT, RMS_REJECT, CANCEL_ORDER_CONFIRM} THEN
        LET qty == resp.Quantity IN
        IF info.openCloseFlag = CLOSE_TODAY_FLAG THEN
            IF info.side = SIDE_BUY
            THEN [pos EXCEPT !.todayShortPos = @ + qty]
            ELSE [pos EXCEPT !.todayLongPos = @ + qty]
        ELSE IF info.openCloseFlag = CLOSE_YESTD_FLAG THEN
            IF info.side = SIDE_BUY
            THEN [pos EXCEPT !.ONShortPos = @ + qty]
            ELSE [pos EXCEPT !.ONLongPos = @ + qty]
        ELSE pos
    ELSE pos

\* bucket-wise difference and sum of two contractPos values
PosDiff(a, b) ==
    [ONLongPos |-> a.ONLongPos - b.ONLongPos, todayLongPos |-> a.todayLongPos - b.todayLongPos,
     ONShortPos |-> a.ONShortPos - b.ONShortPos, todayShortPos |-> a.todayShortPos - b.todayShortPos]

PosSum(a, b) ==
    [ONLongPos |-> a.ONLongPos + b.ONLongPos, todayLongPos |-> a.todayLongPos + b.todayLongPos,
     ONShortPos |-> a.ONShortPos + b.ONShortPos, todayShortPos |-> a.todayShortPos + b.todayShortPos]

\* loadPositionFile: the ledgers a position file can preload
InitialLedgers ==
    [Symbols -> {[ONLongPos |-> n, todayLongPos |-> 0, ONShortPos |-> n, todayShortPos |-> 0] :
                    n \in {0, InitPos}}]

(***************************************************************************)
(* OnBrokerOrderCallback                                                   *)
(***************************************************************************)
NoCached == [order_id |-> 0, strategy_id |-> 0, symbol |-> "", side |-> "", openCloseFlag |-> 0]
NoResp == [Response_Type |-> -1, OrderID |-> 0, ErrorCode |-> 0, Quantity |-> 0,
           Price |-> 0, Side |-> "", Symbol |-> "", StrategyID |-> 0, cb |-> 0]
NoCb == [stage |-> "none", resp |-> NoResp]

\* the switch with the CANCELED case giving back the whole ordered volume
BuildResponse_WholeVolume(oi, info, n) ==
    LET base == [NoResp EXCEPT !.OrderID = info.order_id, !.StrategyID = info.strategy_id,
                               !.Side = info.side, !.Symbol = info.symbol, !.cb = n]
    IN  CASE oi.status \in {"ACCEPTED", "SUBMITTED"} ->
                [base EXCEPT !.Response_Type = NEW_ORDER_CONFIRM]
          [] oi.status \in {"PARTIAL_FILLED", "FILLED"} ->
                [base EXCEPT !.Response_Type = TRADE_CONFIRM,
                             !.Quantity = oi.traded_volume, !.Price = oi.price]
          [] oi.status = "CANCELED" ->
                [base EXCEPT !.Response_Type = CANCEL_ORDER_CONFIRM,
                             !.Quantity = oi.volume]
          [] OTHER ->
                [base EXCEPT !.Response_Type = ORDER_ERROR, !.ErrorCode = 1,
                             !.Quantity = oi.volume]

\* the switch on order_info.status: the ResponseMsg built for a cached order
BuildResponse(oi, info, n) ==
    LET base == [NoResp EXCEPT !.OrderID = info.order_id, !.StrategyID = info.strategy_id,
                               !.Side = info.side, !.Symbol = info.symbol, !.cb = n]
    IN  CASE oi.status \in {"ACCEPTED", "SUBMITTED"} ->
                [base EXCEPT !.Response_Type = NEW_ORDER_CONFIRM]
          [] oi.status \in {"PARTIAL_FILLED", "FILLED"} ->
                [base EXCEPT !.Response_Type = TRADE_CONFIRM,
                             !.Quantity = oi.traded_volume, !.Price = oi.price]
          [] oi.status = "CANCELED" ->
                [base EXCEPT !.Response_Type = CANCEL_ORDER_CONFIRM,
                             !.Quantity = oi.volume - oi.traded_volume]
          [] oi.status \in {"REJECTED", "ERROR"} ->
                [base EXCEPT !.Response_Type = ORDER_ERROR, !.ErrorCode = 1,
                             !.Quantity = oi.volume]
          [] OTHER ->
                [base EXCEPT !.Response_Type = ORDER_ERROR]

\* the plugin calls m_order_callback(order_info) on thread t.  Lines 450-507:
\* the order is looked up under g_orders_mutex; an id that is not cached
\* drops the callback; otherwise the response is built and applied to the
\* ledger (updatePosition under g_posLock), and is left to be enqueued.
\* cbCount numbers the callbacks that found their order, in call order.
InvokeOrderCallback(t, oi) ==
    IF oi.order_id \in DOMAIN g_order_map
    THEN LET info == g_order_map[oi.order_id]
             resp == BuildResponse(oi, info, cbCount + 1)
             new == updatePosition(g_mapContractPos[info.symbol], resp, info)
         IN  /\ cbk' = [cbk EXCEPT ![t] = [stage |-> "enqueue", resp |-> resp]]
             /\ g_mapContractPos' = [g_mapContractPos EXCEPT ![info.symbol] = new]
             /\ delta' = [delta EXCEPT ![info.order_id] =
                              PosSum(@, PosDiff(new, g_mapContractPos[info.symbol]))]
             /\ cbCount' = cbCount + 1
    ELSE UNCHANGED <<cbk, g_mapContractPos, delta, cbCount>>

\* line 510: g_response_queue->enqueue(resp), then the callback returns
CbEnqueue(t) ==
    /\ cbk[t].stage = "enqueue"
    /\ respQ' = Append(respQ, cbk[t].resp)
    /\ cbk' = [cbk EXCEPT ![t] = NoCb]
    /\ UNCHANGED <<g_mapContractPos, g_order_map, dpc, dreq, dflag, dbid, nextOID,
                   cbCount, delta, ledger0, listing, g_brokers, dispatch>>
    /\ UNCHANGED notBridge

(***************************************************************************)
(* OrderRequestProcessor: the parts common to every plugin                 *)
(***************************************************************************)
NoReq == [OrderID |-> 0, StrategyID |-> 0, Symbol |-> "", Transaction_Type |-> "",
          Quantity |-> 0, Exchange_Type |-> 0, Price |-> 0]

\* Exchange_Type (byte) -> exchange name
ExchangeName(e) ==
    CASE e = CHINA_SHFE -> "SHFE"
      [] e = CHINA_CFFEX -> "CFFEX"
      [] e = CHINA_ZCE -> "CZCE"
      [] e = CHINA_DCE -> "DCE"
      [] e = CHINA_GFEX -> "GFEX"
      [] OTHER -> "SHFE"

\* openCloseFlag -> OffsetFlag
OffsetOf(flag) ==
    CASE flag = OPEN_ORDER -> "OPEN"
      [] flag = CLOSE_TODAY_FLAG -> "CLOSE_TODAY"
      [] flag = CLOSE_YESTD_FLAG -> "CLOSE_YESTERDAY"
      [] OTHER -> "OPEN"

\* the plugin-neutral OrderRequest built from dreq and dflag
UnifiedRequest(req, flag) ==
    [symbol |-> req.Symbol, exchange |-> ExchangeName(req.Exchange_Type),
     direction |-> IF req.Transaction_Type = SIDE_BUY THEN "BUY" ELSE "SELL",
     offset |-> OffsetOf(flag), price |-> req.Price, volume |-> req.Quantity,
     client_order_id |-> req.OrderID]

\* GetBrokerForSymbol: g_symbol_to_broker is never filled, so the result is
\* the first broker of g_brokers (a std::map, ordered by name) that is logged
\* in; the simulator stays logged in from start-up on.
GetBrokerForSymbol(symbol) ==
    IF "ctp" \in g_brokers /\ m_logged_in THEN "ctp"
    ELSE IF "simulator" \in g_brokers THEN "simulator"
    ELSE "none"

\* lines 539-567: dequeue the next request, find its broker and derive its
\* open/close flag.  The strategy's request is chosen here: the request
\* queue is FIFO and its content is the strategy's free choice.
DrainDequeue(req) ==
    /\ dpc = "idle"
    /\ nextOID <= MaxOrders
    /\ req.OrderID = nextOID
    /\ GetBrokerForSymbol(req.Symbol) # "none"
    /\ nextOID' = nextOID + 1
    /\ LET r == SetCombOffsetFlag(g_mapContractPos[req.Symbol], req.Transaction_Type,
                                  req.Quantity, req.Exchange_Type)
           d == PosDiff(r.pos, g_mapContractPos[req.Symbol])
       IN  /\ g_mapContractPos' = [g_mapContractPos EXCEPT ![req.Symbol] = r.pos]
           /\ dflag' = r.flag
           /\ delta' = [delta EXCEPT ![req.OrderID] = PosSum(@, d)]
           /\ dispatch' = [dispatch EXCEPT ![req.OrderID] =
                               [qty |-> req.Quantity, debit |-> d, req |-> req, flag |-> r.flag]]
    /\ dreq' = req
    /\ dpc' = "send"
    /\ UNCHANGED <<g_order_map, respQ, dbid, cbk, cbCount, ledger0, listing, g_brokers>>
    /\ UNCHANGED notBridge

\* lines 539-562: no broker for the symbol: ORS_REJECT, nothing else
DrainNoBroker(req) ==
    /\ dpc = "idle"
    /\ nextOID <= MaxOrders
    /\ req.OrderID = nextOID
    /\ GetBrokerForSymbol(req.Symbol) = "none"
    /\ nextOID' = nextOID + 1
    /\ respQ' = Append(respQ, [NoResp EXCEPT !.Response_Type = ORS_REJECT,
                                             !.OrderID = req.OrderID, !.ErrorCode = 1,
                                             !.StrategyID = req.StrategyID,
                                             !.Symbol = req.Symbol])
    /\ dispatch' = [dispatch EXCEPT ![req.OrderID] =
                        [qty |-> req.Quantity, debit |-> ZeroPos, req |-> req,
                         flag |-> OPEN_ORDER]]
    /\ UNCHANGED <<g_mapContractPos, g_order_map, dpc, dreq, dflag, dbid, cbk, cbCount,
                   delta, ledger0, listing, g_brokers>>
    /\ UNCHANGED notBridge

\* the caching branch leaving strategy_id of the record unset
DrainCache_NoStrategy ==
    /\ dpc = "cache"
    /\ g_order_map' = (dbid :> [order_id |-> dreq.OrderID, strategy_id |-> 0,
                                symbol |-> dreq.Symbol, side |-> dreq.Transaction_Type,
                                openCloseFlag |-> dflag]) @@ g_order_map
    /\ dpc' = "idle"
    /\ UNCHANGED <<g_mapContractPos, respQ, dreq, dflag, dbid, nextOID, cbk, cbCount,
                   delta, ledger0, listing, g_brokers, dispatch>>
    /\ UNCHANGED notBridge

\* lines 621-634: SendOrder returned a non-empty id: cache the order
DrainCache ==
    /\ dpc = "cache"
    /\ g_order_map' = (dbid :> [order_id |-> dreq.OrderID, strategy_id |-> dreq.StrategyID,
                                symbol |-> dreq.Symbol, side |-> dreq.Transaction_Type,
                                openCloseFlag |-> dflag]) @@ g_order_map
    /\ dpc' = "idle"
    /\ UNCHANGED <<g_mapContractPos, respQ, dreq, dflag, dbid, nextOID, cbk, cbCount,
                   delta, ledger0, listing, g_brokers, dispatch>>
    /\ UNCHANGED notBridge

\* the empty-id branch without the call of updatePosition
DrainSendFailed_NoUnfreeze ==
    /\ dpc = "failed"
    /\ respQ' = Append(respQ, [NoResp EXCEPT !.Response_Type = ORDER_ERROR,
                                             !.OrderID = dreq.OrderID, !.ErrorCode = 1,
                                             !.Quantity = dreq.Quantity,
                                             !.Side = dreq.Transaction_Type,
                                             !.StrategyID = dreq.StrategyID,
                                             !.Symbol = dreq.Symbol])
    /\ dpc' = "idle"
    /\ UNCHANGED <<g_mapContractPos, g_order_map, dreq, dflag, dbid, nextOID, cbk, cbCount,
                   delta, ledger0, listing, g_brokers, dispatch>>
    /\ UNCHANGED notBridge

\* lines 635-656: SendOrder returned an empty id: ORDER_ERROR and unfreeze
DrainSendFailed ==
    /\ dpc = "failed"
    /\ LET resp == [NoResp EXCEPT !.Response_Type = ORDER_ERROR, !.OrderID = dreq.OrderID,
                                  !.ErrorCode = 1, !.Quantity = dreq.Quantity,
                                  !.Side = dreq.Transaction_Type,
                                  !.StrategyID = dreq.StrategyID, !.Symbol = dreq.Symbol]
           tmpInfo == [NoCached EXCEPT !.symbol = dreq.Symbol, !.side = dreq.Transaction_Type,
                                       !.openCloseFlag = dflag]
           new == updatePosition(g_mapContractPos[dreq.Symbol], resp, tmpInfo)
       IN  /\ g_mapContractPos' = [g_mapContractPos EXCEPT ![dreq.Symbol] = new]
           /\ delta' = [delta EXCEPT ![dreq.OrderID] =
                            PosSum(@, PosDiff(new, g_mapContractPos[dreq.Symbol]))]
           /\ respQ' = Append(respQ, resp)
    /\ dpc' = "idle"
    /\ UNCHANGED <<g_order_map, dreq, dflag, dbid, nextOID, cbk, cbCount, ledger0, listing, g_brokers, dispatch>>
    /\ UNCHANGED notBridge

\* start-up: queues created, ledger loaded, nothing in flight
BInit ==
    /\ g_mapContractPos \in InitialLedgers
    /\ ledger0 = g_mapContractPos
    /\ g_order_map = <<>>
    /\ respQ = <<>>
    /\ dpc = "idle"
    /\ dreq = NoReq
    /\ dflag = OPEN_ORDER
    /\ dbid = 0
    /\ nextOID = 1
    /\ cbk = [t \in Threads |-> NoCb]
    /\ cbCount = 0
    /\ delta = [o \in 1 .. MaxOrders |-> ZeroPos]
    /\ listing \in [Symbols -> ExchangeTypes]
    /\ g_brokers \in {{"simulator"}, {"ctp"}}
    /\ dispatch = [o \in 1 .. MaxOrders |-> [qty |-> 0, debit |-> ZeroPos, req |-> NoReq,
                                                flag |-> OPEN_ORDER]]

(***************************************************************************)
(* Simulator plugin                                                        *)
(***************************************************************************)
\* simulator_config.h defaults
margin_rate == <<1, 10>>
commission_rate == <<3, 10000>>
slippage_ticks == 1
Modes == {"immediate", "market_driven"}

\* InternalPosition, value-initialised by m_positions[pos_key]
ZeroSimPos == [volume |-> 0, today_volume |-> 0, yesterday_volume |-> 0,
               avg_price |-> R(0), total_cost |-> R(0), total_volume_traded |-> 0,
               margin |-> R(0)]

NoSimReq == [symbol |-> "", exchange |-> "", direction |-> "", offset |-> "OPEN",
             price |-> 0, volume |-> 0, client_order_id |-> 0]

NoTrade == [order_id |-> 0, symbol |-> "", direction |-> "", offset |-> "OPEN",
            price |-> 0, volume |-> 0]

Min(a, b) == IF a < b THEN a ELSE b

\* symbol + "_LONG" / "_SHORT"
PosKey(symbol, dir) == <<symbol, IF dir = "BUY" THEN "LONG" ELSE "SHORT">>

OppositeDir(dir) == IF dir = "BUY" THEN "SELL" ELSE "BUY"

CalculateMargin(price, volume) == RMul(R(price * volume), margin_rate)

CalculateCommission(price, volume) == RMul(R(price * volume), commission_rate)

\* SetOpenClose: the offset the simulator gives the request, whatever the
\* bridge had put there
SetOpenClose(req) ==
    LET key == PosKey(req.symbol, OppositeDir(req.direction))
        is_shfe == (req.exchange = "SHFE")
    IN  IF key \in DOMAIN m_positions /\ m_positions[key].volume > 0
        THEN IF is_shfe
             THEN IF m_positions[key].today_volume > 0 THEN "CLOSE_TODAY"
                  ELSE IF m_positions[key].yesterday_volume > 0 THEN "CLOSE_YESTERDAY"
                  ELSE "CLOSE"
             ELSE "CLOSE"
        ELSE "OPEN"

\* the first block asking only for a position entry when the order closes
CheckRiskPosition_AnyVolume(req) ==
    IF req.offset = "OPEN"
    THEN LET key == PosKey(req.symbol, req.direction)
             current_volume == IF key \in DOMAIN m_positions THEN m_positions[key].volume ELSE 0
         IN  ~(current_volume + req.volume > max_position_per_symbol)
    ELSE PosKey(req.symbol, OppositeDir(req.direction)) \in DOMAIN m_positions

\* CheckRisk, first block: the position limits (under m_position_mutex)
CheckRiskPosition(req) ==
    IF req.offset = "OPEN"
    THEN LET key == PosKey(req.symbol, req.direction)
             current_volume == IF key \in DOMAIN m_positions THEN m_positions[key].volume ELSE 0
         IN  ~(current_volume + req.volume > max_position_per_symbol)
    ELSE LET key == PosKey(req.symbol, OppositeDir(req.direction)) IN
         /\ key \in DOMAIN m_positions
         /\ LET pos == m_positions[key]
                available == CASE req.offset = "CLOSE_TODAY" -> pos.today_volume
                               [] req.offset = "CLOSE_YESTERDAY" -> pos.yesterday_volume
                               [] OTHER -> pos.volume
            IN  ~(available < req.volume)

\* CheckRisk, second block: available funds for an open (under m_account_mutex)
CheckRiskFunds(req) ==
    \/ req.offset # "OPEN"
    \/ ~RLt(m_available, RAdd(CalculateMargin(req.price, req.volume),
                              CalculateCommission(req.price, req.volume)))

\* CheckRisk, third block: the daily loss limit (under m_account_mutex)
CheckRiskDailyLoss == ~RLt(m_daily_pnl, R(-max_daily_loss))

ConvertToOrderInfo(id, order) ==
    [order_id |-> id, status |-> order.status, volume |-> order.request.volume,
     traded_volume |-> order.traded_volume, price |-> order.request.price]

LogEv(id, ev) == plugEv' = [plugEv EXCEPT ![id] = Append(@, ev)]

\* SendOrder lines 155-175: copy the request, SetOpenClose, GenerateOrderID
SimSendOrder ==
    /\ dpc = "send"
    /\ "simulator" \in g_brokers
    /\ m_position_mutex = {}
    /\ LET req == UnifiedRequest(dreq, dflag) IN
       sreq' = [req EXCEPT !.offset = SetOpenClose(req)]
    /\ dbid' = m_order_ref
    /\ m_order_ref' = m_order_ref + 1
    /\ dpc' = "risk_pos"
    /\ UNCHANGED <<g_mapContractPos, g_order_map, respQ, dreq, dflag, nextOID, cbk,
                   cbCount, delta, ledger0, listing, g_brokers, dispatch>>
    /\ UNCHANGED <<m_orders, m_positions, m_balance, m_available, m_margin, m_commission,
                   m_close_profit, m_daily_pnl, m_trades, m_trade_count, m_order_mutex,
                   m_position_mutex, m_account_mutex, srej, tpc, ttrade, xpc, plugEv, mode>>
    /\ UNCHANGED notSim

\* CheckRisk lines 711-771
SimCheckRiskPosition ==
    /\ dpc = "risk_pos"
    /\ m_position_mutex = {}
    /\ IF CheckRiskPosition(sreq)
       THEN dpc' = "risk_funds" /\ srej' = FALSE
       ELSE dpc' = "store" /\ srej' = TRUE
    /\ UNCHANGED <<g_mapContractPos, g_order_map, respQ, dreq, dflag, dbid, nextOID, cbk,
                   cbCount, delta, ledger0, listing, g_brokers, dispatch>>
    /\ UNCHANGED <<m_order_ref, m_orders, m_positions, m_balance, m_available, m_margin,
                   m_commission, m_close_profit, m_daily_pnl, m_trades, m_trade_count,
                   m_order_mutex, m_position_mutex, m_account_mutex, sreq, tpc, ttrade,
                   xpc, plugEv, mode>>
    /\ UNCHANGED notSim

\* CheckRisk lines 774-787
SimCheckRiskFunds ==
    /\ dpc = "risk_funds"
    /\ m_account_mutex = {}
    /\ IF CheckRiskFunds(sreq)
       THEN dpc' = "risk_loss" /\ srej' = FALSE
       ELSE dpc' = "store" /\ srej' = TRUE
    /\ UNCHANGED <<g_mapContractPos, g_order_map, respQ, dreq, dflag, dbid, nextOID, cbk,
                   cbCount, delta, ledger0, listing, g_brokers, dispatch>>
    /\ UNCHANGED <<m_order_ref, m_orders, m_positions, m_balance, m_available, m_margin,
                   m_commission, m_close_profit, m_daily_pnl, m_trades, m_trade_count,
                   m_order_mutex, m_position_mutex, m_account_mutex, sreq, tpc, ttrade,
                   xpc, plugEv, mode>>
    /\ UNCHANGED notSim

\* CheckRisk lines 790-800
SimCheckRiskDailyLoss ==
    /\ dpc = "risk_loss"
    /\ m_account_mutex = {}
    /\ srej' = ~CheckRiskDailyLoss
    /\ dpc' = "store"
    /\ UNCHANGED <<g_mapContractPos, g_order_map, respQ, dreq, dflag, dbid, nextOID, cbk,
                   cbCount, delta, ledger0, listing, g_brokers, dispatch>>
    /\ UNCHANGED <<m_order_ref, m_orders, m_positions, m_balance, m_available, m_margin,
                   m_commission, m_close_profit, m_daily_pnl, m_trades, m_trade_count,
                   m_order_mutex, m_position_mutex, m_account_mutex, sreq, tpc, ttrade,
                   xpc, plugEv, mode>>
    /\ UNCHANGED notSim

\* SendOrder lines 183-206 (rejected) and 217-244 (submitting): store the
\* order under m_order_mutex, release it, and invoke the order callback with
\* the local copy of the order
SimStoreAndNotify ==
    /\ dpc = "store"
    /\ m_order_mutex = {}
    /\ LET order == [request |-> sreq,
                     status |-> IF srej THEN "REJECTED" ELSE "SUBMITTING",
                     traded_volume |-> 0]
       IN  /\ m_orders' = (dbid :> order) @@ m_orders
           /\ InvokeOrderCallback(DrainT, ConvertToOrderInfo(dbid, order))
           /\ LogEv(dbid, order.status)
    /\ dpc' = "notified"
    /\ UNCHANGED <<g_order_map, respQ, dreq, dflag, dbid, nextOID, ledger0, listing, g_brokers, dispatch>>
    /\ UNCHANGED <<m_order_ref, m_positions, m_balance, m_available, m_margin,
                   m_commission, m_close_profit, m_daily_pnl, m_trades, m_trade_count,
                   m_order_mutex, m_position_mutex, m_account_mutex, sreq, srej, tpc,
                   ttrade, xpc, mode>>
    /\ UNCHANGED notSim

\* SendOrder lines 208-213 and 246-257: after the callback returned, start
\* the detached ProcessOrderImmediate thread (mode "immediate", accepted
\* orders only) and return order_id
SimSendOrderReturn ==
    /\ dpc = "notified"
    /\ cbk[DrainT].stage = "none"
    /\ tpc' = IF ~srej /\ mode = "immediate" THEN [tpc EXCEPT ![dbid] = "accept"] ELSE tpc
    /\ dpc' = "cache"
    /\ UNCHANGED <<g_mapContractPos, g_order_map, respQ, dreq, dflag, dbid, nextOID, cbk,
                   cbCount, delta, ledger0, listing, g_brokers, dispatch>>
    /\ UNCHANGED <<m_order_ref, m_orders, m_positions, m_balance, m_available, m_margin,
                   m_commission, m_close_profit, m_daily_pnl, m_trades, m_trade_count,
                   m_order_mutex, m_position_mutex, m_account_mutex, sreq, srej, ttrade,
                   xpc, plugEv, mode>>
    /\ UNCHANGED notSim

\* the simulator's account fields
acct == <<m_balance, m_available, m_margin, m_commission, m_close_profit, m_daily_pnl>>

\* the variables of the request-drain thread
drain == <<dpc, dreq, dflag, dbid, nextOID, sreq, srej>>

\* ProcessOrderImmediate lines 426-444: after the accept delay, under
\* m_order_mutex: return if canceled, else ACCEPTED and the order callback
\* (invoked while the mutex is held)
TaskAccept(i) ==
    /\ tpc[i] = "accept"
    /\ m_order_mutex = {}
    /\ IF m_orders[i].status = "CANCELED"
       THEN /\ tpc' = [tpc EXCEPT ![i] = "done"]
            /\ UNCHANGED <<m_orders, m_order_mutex, cbk, cbCount, g_mapContractPos, delta, plugEv>>
       ELSE /\ m_orders' = [m_orders EXCEPT ![i].status = "ACCEPTED"]
            /\ m_order_mutex' = {i}
            /\ InvokeOrderCallback(i, ConvertToOrderInfo(i, m_orders'[i]))
            /\ LogEv(i, "ACCEPTED")
            /\ tpc' = [tpc EXCEPT ![i] = "accepted"]
    /\ UNCHANGED <<g_order_map, respQ, ledger0, listing, g_brokers, dispatch, drain, acct>>
    /\ UNCHANGED <<m_order_ref, m_positions, m_trades, m_trade_count, m_position_mutex,
                   m_account_mutex, ttrade, xpc, mode>>
    /\ UNCHANGED notSim

\* line 444: the callback returned; the lock_guard releases m_order_mutex
TaskAcceptUnlock(i) ==
    /\ tpc[i] = "accepted"
    /\ cbk[i].stage = "none"
    /\ m_order_mutex' = {}
    /\ tpc' = [tpc EXCEPT ![i] = "fill_check"]
    /\ UNCHANGED <<bvars, drain, acct>>
    /\ UNCHANGED <<m_order_ref, m_orders, m_positions, m_trades, m_trade_count,
                   m_position_mutex, m_account_mutex, ttrade, xpc, mode, plugEv>>
    /\ UNCHANGED notSim

\* lines 446-483: after the fill delay, check for a cancel under
\* m_order_mutex, release it, and build the trade at the slipped price
TaskFillCheck(i) ==
    /\ tpc[i] = "fill_check"
    /\ m_order_mutex = {}
    /\ IF m_orders[i].status = "CANCELED"
       THEN /\ tpc' = [tpc EXCEPT ![i] = "done"]
            /\ UNCHANGED ttrade
       ELSE LET req == m_orders[i].request
                fill_price == IF req.direction = "BUY" THEN req.price + slippage_ticks
                                                       ELSE req.price - slippage_ticks
            IN  /\ ttrade' = [ttrade EXCEPT ![i] =
                                 [order_id |-> i, symbol |-> req.symbol,
                                  direction |-> req.direction, offset |-> req.offset,
                                  price |-> fill_price, volume |-> req.volume]]
                /\ tpc' = [tpc EXCEPT ![i] = "fill"]
    /\ UNCHANGED <<bvars, drain, acct>>
    /\ UNCHANGED <<m_order_ref, m_orders, m_positions, m_trades, m_trade_count,
                   m_order_mutex, m_position_mutex, m_account_mutex, xpc, mode, plugEv>>
    /\ UNCHANGED notSim

\* lines 486-500: under m_order_mutex again: FILLED, traded_volume = volume,
\* and the order callback; the order's status is not looked at
TaskFill(i) ==
    /\ tpc[i] = "fill"
    /\ m_order_mutex = {}
    /\ m_orders' = [m_orders EXCEPT ![i].status = "FILLED",
                                    ![i].traded_volume = ttrade[i].volume]
    /\ m_order_mutex' = {i}
    /\ InvokeOrderCallback(i, ConvertToOrderInfo(i, m_orders'[i]))
    /\ LogEv(i, "FILLED")
    /\ tpc' = [tpc EXCEPT ![i] = "filled"]
    /\ UNCHANGED <<g_order_map, respQ, ledger0, listing, g_brokers, dispatch, drain, acct>>
    /\ UNCHANGED <<m_order_ref, m_positions, m_trades, m_trade_count, m_position_mutex,
                   m_account_mutex, ttrade, xpc, mode>>
    /\ UNCHANGED notSim

\* lines 501-510: release m_order_mutex, store the trade, count it
TaskStoreTrade(i) ==
    /\ tpc[i] = "filled"
    /\ cbk[i].stage = "none"
    /\ m_order_mutex' = {}
    /\ m_trades' = Append(m_trades, ttrade[i])
    /\ m_trade_count' = m_trade_count + 1
    /\ tpc' = [tpc EXCEPT ![i] = "update_position"]
    /\ UNCHANGED <<bvars, drain, acct>>
    /\ UNCHANGED <<m_order_ref, m_orders, m_positions, m_position_mutex,
                   m_account_mutex, ttrade, xpc, mode, plugEv>>
    /\ UNCHANGED notSim

\* UpdatePosition, open branch (lines 542-570): the position after the trade
OpenPosition(pos, trade) ==
    LET oldCost == RMul(pos.avg_price, R(pos.volume))
        total_cost == RAdd(oldCost, R(trade.price * trade.volume))
        traded == pos.total_volume_traded + trade.volume
    IN  [pos EXCEPT !.total_cost = total_cost,
                    !.volume = @ + trade.volume,
                    !.today_volume = @ + trade.volume,
                    !.total_volume_traded = traded,
                    !.avg_price = RDivInt(total_cost, traded),
                    !.margin = CalculateMargin(trade.price, pos.volume + trade.volume)]

\* a close branch that takes the traded volume without the std::min
CloseQty_Unclamped(pos, trade) ==
    IF trade.offset = "CLOSE_YESTERDAY"
    THEN <<trade.volume, 0, trade.volume>>
    ELSE <<trade.volume, trade.volume, 0>>

\* UpdatePosition, close branch (lines 595-627): closedQty, close_today, close_yesterday
CloseQty(pos, trade) ==
    CASE trade.offset = "CLOSE_TODAY" ->
            LET c == Min(trade.volume, pos.today_volume) IN <<c, c, 0>>
      [] trade.offset = "CLOSE_YESTERDAY" ->
            LET c == Min(trade.volume, pos.yesterday_volume) IN <<c, 0, c>>
      [] OTHER ->
            LET c == Min(trade.volume, pos.volume) IN
            IF pos.today_volume >= c THEN <<c, c, 0>>
            ELSE <<c, pos.today_volume, c - pos.today_volume>>

\* the key of the position a closing trade reduces
CloseKey(trade) == PosKey(trade.symbol, OppositeDir(trade.direction))

\* UpdatePosition lines 534-632: take m_position_mutex; an open is applied
\* and the mutex released; a close with nothing to close returns; any other
\* close keeps the mutex and goes on to the account
TaskUpdatePosition(i) ==
    /\ tpc[i] = "update_position"
    /\ m_position_mutex = {}
    /\ LET trade == ttrade[i] IN
       IF trade.offset = "OPEN"
       THEN LET key == PosKey(trade.symbol, trade.direction)
                pos == IF key \in DOMAIN m_positions THEN m_positions[key] ELSE ZeroSimPos
            IN  /\ m_positions' = (key :> OpenPosition(pos, trade)) @@ m_positions
                /\ LogEv(i, "POSITION")
                /\ tpc' = [tpc EXCEPT ![i] = "update_account"]
                /\ UNCHANGED m_position_mutex
       ELSE IF \/ CloseKey(trade) \notin DOMAIN m_positions
               \/ m_positions[CloseKey(trade)].volume = 0
               \/ CloseQty(m_positions[CloseKey(trade)], trade)[1] = 0
            THEN /\ tpc' = [tpc EXCEPT ![i] = "update_account"]
                 /\ UNCHANGED <<m_positions, m_position_mutex, plugEv>>
            ELSE /\ m_position_mutex' = {i}
                 /\ tpc' = [tpc EXCEPT ![i] = "close_pnl"]
                 /\ UNCHANGED <<m_positions, plugEv>>
    /\ UNCHANGED <<bvars, drain, acct>>
    /\ UNCHANGED <<m_order_ref, m_orders, m_trades, m_trade_count, m_order_mutex,
                   m_account_mutex, ttrade, xpc, mode>>
    /\ UNCHANGED notSim

\* UpdatePosition lines 634-669: holding m_position_mutex, take
\* m_account_mutex for the realised P&L, then reduce or erase the position
TaskClosePnl(i) ==
    /\ tpc[i] = "close_pnl"
    /\ m_account_mutex = {}
    /\ LET trade == ttrade[i]
           key == CloseKey(trade)
           pos == m_positions[key]
           c == CloseQty(pos, trade)
           close_pnl == IF key[2] = "LONG"
                        THEN RMul(RSub(R(trade.price), pos.avg_price), R(c[1]))
                        ELSE RMul(RSub(pos.avg_price, R(trade.price)), R(c[1]))
           newpos == [pos EXCEPT !.volume = @ - c[1], !.today_volume = @ - c[2],
                                 !.yesterday_volume = @ - c[3]]
       IN  /\ m_close_profit' = RAdd(m_close_profit, close_pnl)
           /\ m_daily_pnl' = RAdd(m_daily_pnl, close_pnl)
           /\ m_positions' =
                 IF newpos.volume = 0
                 THEN [k \in DOMAIN m_positions \ {key} |-> m_positions[k]]
                 ELSE [m_positions EXCEPT ![key] =
                          [newpos EXCEPT !.margin = CalculateMargin(trade.price, newpos.volume)]]
    /\ m_position_mutex' = {}
    /\ LogEv(i, "POSITION")
    /\ tpc' = [tpc EXCEPT ![i] = "update_account"]
    /\ UNCHANGED <<bvars, drain>>
    /\ UNCHANGED <<m_order_ref, m_orders, m_balance, m_available, m_margin, m_commission,
                   m_trades, m_trade_count, m_order_mutex, m_account_mutex, ttrade, xpc, mode>>
    /\ UNCHANGED notSim

RECURSIVE SumMargin(_, _)
SumMargin(positions, keys) ==
    IF keys = {} THEN R(0)
    ELSE LET k == CHOOSE x \in keys : TRUE
         IN  RAdd(positions[k].margin, SumMargin(positions, keys \ {k}))

\* UpdateAccount line 673: take m_account_mutex
TaskUpdateAccountLock(i) ==
    /\ tpc[i] = "update_account"
    /\ m_account_mutex = {}
    /\ m_account_mutex' = {i}
    /\ tpc' = [tpc EXCEPT ![i] = "account_margin"]
    /\ UNCHANGED <<bvars, drain, acct>>
    /\ UNCHANGED <<m_order_ref, m_orders, m_positions, m_trades, m_trade_count,
                   m_order_mutex, m_position_mutex, ttrade, xpc, mode, plugEv>>
    /\ UNCHANGED notSim

\* UpdateAccount without the assignment to m_balance
TaskUpdateAccount_KeepBalance(i) ==
    /\ tpc[i] = "account_margin"
    /\ m_position_mutex = {}
    /\ LET total_margin == SumMargin(m_positions, DOMAIN m_positions) IN
       /\ m_margin' = total_margin
       /\ m_available' = RSub(RSub(m_balance, total_margin), m_commission)
    /\ m_account_mutex' = {}
    /\ plugEv' = [plugEv EXCEPT ![i] = @ \o <<"ACCOUNT", "TRADE">>]
    /\ tpc' = [tpc EXCEPT ![i] = "done"]
    /\ UNCHANGED <<bvars, drain>>
    /\ UNCHANGED <<m_order_ref, m_orders, m_positions, m_balance, m_commission,
                   m_close_profit, m_daily_pnl, m_trades, m_trade_count, m_order_mutex,
                   m_position_mutex, ttrade, xpc, mode>>
    /\ UNCHANGED notSim

\* UpdateAccount lines 676-690: holding m_account_mutex, take
\* m_position_mutex to sum the margins, then recompute the account; back in
\* ProcessOrderImmediate (lines 523-525) the trade callback is invoked
\* (OnBrokerTradeCallback only logs)
TaskUpdateAccount(i) ==
    /\ tpc[i] = "account_margin"
    /\ m_position_mutex = {}
    /\ LET total_margin == SumMargin(m_positions, DOMAIN m_positions) IN
       /\ m_margin' = total_margin
       /\ m_available' = RSub(RSub(m_balance, total_margin), m_commission)
       /\ m_balance' = RSub(RAdd(R(initial_balance), m_close_profit), m_commission)
    /\ m_account_mutex' = {}
    /\ plugEv' = [plugEv EXCEPT ![i] = @ \o <<"ACCOUNT", "TRADE">>]
    /\ tpc' = [tpc EXCEPT ![i] = "done"]
    /\ UNCHANGED <<bvars, drain>>
    /\ UNCHANGED <<m_order_ref, m_orders, m_positions, m_commission, m_close_profit,
                   m_daily_pnl, m_trades, m_trade_count, m_order_mutex, m_position_mutex,
                   ttrade, xpc, mode>>
    /\ UNCHANGED notSim

\* CancelOrder that does not wait for m_order_mutex
SimCancelOrder_NoLock(id) ==
    /\ xpc = "idle"
    /\ id \in DOMAIN g_order_map
    /\ id \in DOMAIN m_orders
    /\ m_orders[id].status \notin {"FILLED", "CANCELED", "REJECTED"}
    /\ m_orders' = [m_orders EXCEPT ![id].status = "CANCELED"]
    /\ m_order_mutex' = {CancelT}
    /\ InvokeOrderCallback(CancelT, ConvertToOrderInfo(id, m_orders'[id]))
    /\ LogEv(id, "CANCELED")
    /\ xpc' = "canceled"
    /\ UNCHANGED <<g_order_map, respQ, ledger0, listing, g_brokers, dispatch, drain, acct>>
    /\ UNCHANGED <<m_order_ref, m_positions, m_trades, m_trade_count, m_position_mutex,
                   m_account_mutex, tpc, ttrade, mode>>
    /\ UNCHANGED notSim

\* CancelOrder lines 266-294, called on some thread of the process with a
\* broker order id the bridge has cached (the only place the process keeps
\* the ids SendOrder returned): under m_order_mutex, a cancellable order
\* becomes CANCELED and the order callback is invoked while the mutex is held
SimCancelOrder(id) ==
    /\ xpc = "idle"
    /\ m_order_mutex = {}
    /\ id \in DOMAIN g_order_map
    /\ id \in DOMAIN m_orders
    /\ m_orders[id].status \notin {"FILLED", "CANCELED", "REJECTED"}
    /\ m_orders' = [m_orders EXCEPT ![id].status = "CANCELED"]
    /\ m_order_mutex' = {CancelT}
    /\ InvokeOrderCallback(CancelT, ConvertToOrderInfo(id, m_orders'[id]))
    /\ LogEv(id, "CANCELED")
    /\ xpc' = "canceled"
    /\ UNCHANGED <<g_order_map, respQ, ledger0, listing, g_brokers, dispatch, drain, acct>>
    /\ UNCHANGED <<m_order_ref, m_positions, m_trades, m_trade_count, m_position_mutex,
                   m_account_mutex, tpc, ttrade, mode>>
    /\ UNCHANGED notSim

\* line 296: the callback returned; release m_order_mutex and return true
SimCancelReturn ==
    /\ xpc = "canceled"
    /\ cbk[CancelT].stage = "none"
    /\ m_order_mutex' = {}
    /\ xpc' = "idle"
    /\ UNCHANGED <<bvars, drain, acct>>
    /\ UNCHANGED <<m_order_ref, m_orders, m_positions, m_trades, m_trade_count,
                   m_position_mutex, m_account_mutex, tpc, ttrade, mode, plugEv>>
    /\ UNCHANGED notSim

\* Initialize + Login: account reset to initial_balance, no orders, no positions
SInit ==
    /\ m_order_ref = 1
    /\ m_orders = <<>>
    /\ m_positions = <<>>
    /\ m_balance = R(initial_balance)
    /\ m_available = R(initial_balance)
    /\ m_margin = R(0)
    /\ m_commission = R(0)
    /\ m_close_profit = R(0)
    /\ m_daily_pnl = R(0)
    /\ m_trades = <<>>
    /\ m_trade_count = 0
    /\ m_order_mutex = {}
    /\ m_position_mutex = {}
    /\ m_account_mutex = {}
    /\ sreq = NoSimReq
    /\ srej = FALSE
    /\ tpc = [i \in TaskIds |-> "none"]
    /\ ttrade = [i \in TaskIds |-> NoTrade]
    /\ xpc = "idle"
    /\ mode \in Modes
    /\ plugEv = [i \in TaskIds |-> <<>>]


(***************************************************************************)
(* CTP plugin.  The front (the broker's CTP counter and the exchange       *)
(* behind it) is the environment: it holds each inserted order as a        *)
(* CThostFtdcOrderField and reports its progress on the one SPI thread.    *)
(* SetOpenClose rewrites only the offset sent to the front, which no       *)
(* variable of this model depends on; the front's verdict is its own.      *)
(***************************************************************************)
NoFrontOrder == [OrderStatus |-> "none", VolumeTotalOriginal |-> 0, VolumeTraded |-> 0,
                 LimitPrice |-> 0]

\* TThostFtdcOrderStatusType values the front reports in OnRtnOrder
CtpStatuses == {"Unknown", "NoTradeQueueing", "PartTradedQueueing", "AllTraded", "Canceled"}

\* the front has finished with the order
FrontDone(f) == f.OrderStatus \in {"AllTraded", "Canceled", "InsertError"}

\* the reports the front can make next for an order it holds as f
FrontStep(f, st, vt) ==
    /\ f.OrderStatus # "none"
    /\ ~FrontDone(f)
    /\ CASE st = "Unknown" -> f.OrderStatus = "Inserted" /\ vt = 0
         [] st = "NoTradeQueueing" -> f.OrderStatus \in {"Inserted", "Unknown"} /\ vt = 0
         [] st = "PartTradedQueueing" -> vt > f.VolumeTraded /\ vt < f.VolumeTotalOriginal
         [] st = "AllTraded" -> vt = f.VolumeTotalOriginal
         [] st = "Canceled" -> vt = f.VolumeTraded
         [] OTHER -> FALSE

\* ConvertOrder, lines 1013-1031: the switch on OrderStatus
ConvertStatus(st) ==
    CASE st = "AllTraded" -> "FILLED"
      [] st = "PartTradedQueueing" -> "PARTIAL_FILLED"
      [] st = "NoTradeQueueing" -> "ACCEPTED"
      [] st = "Canceled" -> "CANCELED"
      [] st = "Unknown" -> "UNKNOWN"
      [] OTHER -> "UNKNOWN"

\* ConvertOrder: the OrderInfo made from the front's order field
ConvertOrder(id, pOrder) ==
    [order_id |-> id, status |-> ConvertStatus(pOrder.OrderStatus),
     volume |-> pOrder.VolumeTotalOriginal, traded_volume |-> pOrder.VolumeTraded,
     price |-> pOrder.LimitPrice]

\* what a handler of the SPI thread leaves alone in the bridge besides what
\* InvokeOrderCallback sets
spiKeeps == <<g_order_map, respQ, dpc, dreq, dflag, dbid, nextOID, ledger0, listing,
              g_brokers, dispatch>>

\* SendOrder, lines 428-431: settlement not confirmed, return ""
CtpSendOrderNotConfirmed ==
    /\ dpc = "send"
    /\ "ctp" \in g_brokers
    /\ ~m_settlement_confirmed
    /\ dpc' = "failed"
    /\ UNCHANGED <<g_mapContractPos, g_order_map, respQ, dreq, dflag, dbid, nextOID, cbk,
                   cbCount, delta, ledger0, listing, g_brokers, dispatch>>
    /\ UNCHANGED cvars
    /\ UNCHANGED notCtp

\* SendOrder, lines 433-542: GenerateOrderRef, ReqOrderInsert returning ret.
\* A non-zero ret returns ""; with ret = 0 the front holds the order from
\* here on, and the order id is FrontID-SessionID-OrderRef.
CtpReqOrderInsert(ret) ==
    /\ dpc = "send"
    /\ "ctp" \in g_brokers
    /\ m_settlement_confirmed
    /\ ctp_order_ref' = ctp_order_ref + 1
    /\ IF ret # 0
       THEN /\ dpc' = "failed"
            /\ UNCHANGED <<dbid, front>>
       ELSE /\ dpc' = "save"
            /\ dbid' = ctp_order_ref + 1
            /\ front' = [front EXCEPT ![ctp_order_ref + 1] =
                            [OrderStatus |-> "Inserted", VolumeTotalOriginal |-> dreq.Quantity,
                             VolumeTraded |-> 0, LimitPrice |-> dreq.Price]]
    /\ UNCHANGED <<g_mapContractPos, g_order_map, respQ, dreq, dflag, nextOID, cbk,
                   cbCount, delta, ledger0, listing, g_brokers, dispatch>>
    /\ UNCHANGED <<m_logged_in, m_settlement_confirmed, m_order_cache>>
    /\ UNCHANGED notCtp

\* SendOrder, lines 544-572: SaveOrder with status SUBMITTING, return the id
CtpSaveOrder ==
    /\ dpc = "save"
    /\ m_order_cache' = (dbid :> [order_id |-> dbid, status |-> "SUBMITTING",
                                  volume |-> dreq.Quantity, traded_volume |-> 0,
                                  price |-> dreq.Price]) @@ m_order_cache
    /\ dpc' = "cache"
    /\ UNCHANGED <<g_mapContractPos, g_order_map, respQ, dreq, dflag, dbid, nextOID, cbk,
                   cbCount, delta, ledger0, listing, g_brokers, dispatch>>
    /\ UNCHANGED <<m_logged_in, m_settlement_confirmed, ctp_order_ref, front>>
    /\ UNCHANGED notCtp

\* OnRtnOrder: the front reports order b with status st and VolumeTraded vt;
\* ConvertOrder, SaveOrder, then the order callback under m_callback_mutex
CtpOnRtnOrder(b, st, vt) ==
    /\ m_logged_in
    /\ cbk[SpiT].stage = "none"
    /\ FrontStep(front[b], st, vt)
    /\ LET pOrder == [front[b] EXCEPT !.OrderStatus = st, !.VolumeTraded = vt]
           order_info == ConvertOrder(b, pOrder)
       IN  /\ front' = [front EXCEPT ![b] = pOrder]
           /\ m_order_cache' = (b :> order_info) @@ m_order_cache
           /\ InvokeOrderCallback(SpiT, order_info)
    /\ UNCHANGED spiKeeps
    /\ UNCHANGED <<m_logged_in, m_settlement_confirmed, ctp_order_ref>>
    /\ UNCHANGED notCtp

\* OnRspOrderInsert with an error: the front refuses order b.  Only an order
\* already in m_order_cache is set to REJECTED and reported.
CtpOnRspOrderInsert(b) ==
    /\ m_logged_in
    /\ cbk[SpiT].stage = "none"
    /\ front[b].OrderStatus = "Inserted"
    /\ front' = [front EXCEPT ![b].OrderStatus = "InsertError"]
    /\ IF b \in DOMAIN m_order_cache
       THEN LET order_info == [m_order_cache[b] EXCEPT !.status = "REJECTED"]
            IN  /\ m_order_cache' = [m_order_cache EXCEPT ![b] = order_info]
                /\ InvokeOrderCallback(SpiT, order_info)
       ELSE UNCHANGED <<m_order_cache, cbk, g_mapContractPos, delta, cbCount>>
    /\ UNCHANGED spiKeeps
    /\ UNCHANGED <<m_logged_in, m_settlement_confirmed, ctp_order_ref>>
    /\ UNCHANGED notCtp

\* OnFrontDisconnected: the connection to the front is lost
CtpOnFrontDisconnected ==
    /\ m_logged_in
    /\ cbk[SpiT].stage = "none"
    /\ m_logged_in' = FALSE
    /\ m_settlement_confirmed' = FALSE
    /\ UNCHANGED <<ctp_order_ref, m_order_cache, front>>
    /\ UNCHANGED bvars
    /\ UNCHANGED notCtp

\* Initialize + Login: logged in, settlement confirmed, no order sent yet
CInit ==
    /\ m_logged_in = TRUE
    /\ m_settlement_confirmed = TRUE
    /\ ctp_order_ref = 0
    /\ m_order_cache = <<>>
    /\ front = [b \in TaskIds |-> NoFrontOrder]


(***************************************************************************)
(* Single calls of the program's functions, on arguments of any value      *)
(***************************************************************************)
NoCall == [fn |-> "none"]

\* every exchange code of hftbase_types.h
AllExchangeTypes == {CHINA_SHFE, CHINA_CFFEX, CHINA_ZCE, CHINA_DCE, CHINA_GFEX}

\* the ledgers a symbol can have
Ledgers ==
    [ONLongPos : 0 .. MaxBucket, todayLongPos : 0 .. MaxBucket,
     ONShortPos : 0 .. MaxBucket, todayShortPos : 0 .. MaxBucket]

\* SetCombOffsetFlag(request, openCloseFlag, exchangeType) on a ledger pos
CallSetCombOffsetFlag(pos, side, qty, exchangeType) ==
    /\ call = NoCall
    /\ call' = [fn |-> "SetCombOffsetFlag",
                args |-> [pos |-> pos, side |-> side, qty |-> qty,
                          exchangeType |-> exchangeType],
                result |-> SetCombOffsetFlag(pos, side, qty, exchangeType)]
    /\ UNCHANGED <<qvars, bvars, svars, cvars, lvars, yvars>>

\* enum class OrderStatus
OrderStatuses ==
    {"UNKNOWN", "SUBMITTING", "SUBMITTED", "ACCEPTED", "PARTIAL_FILLED", "FILLED",
     "CANCELING", "CANCELED", "REJECTED", "ERROR"}

\* the OrderInfo values a plugin can pass for broker order id b
OrderInfos(b) ==
    {oi \in [order_id : {b}, status : OrderStatuses, volume : 1 .. MaxCallQty,
             traded_volume : 0 .. MaxCallQty, price : {LimitPrice, LimitPrice + 1}] :
        oi.traded_volume <= oi.volume}

\* the CachedOrderInfo values the drain thread can have stored
CachedInfos ==
    [order_id : 1 .. MaxOrders, strategy_id : {7, 8}, symbol : {"ag2506", "IF2506"},
     side : Sides, openCloseFlag : {OPEN_ORDER, CLOSE_TODAY_FLAG, CLOSE_YESTD_FLAG}]

\* OnBrokerOrderCallback(order_info) with info cached under order_info.order_id:
\* the response it enqueues
CallOnBrokerOrderCallback(oi, info) ==
    /\ call = NoCall
    /\ call' = [fn |-> "OnBrokerOrderCallback", args |-> [order_info |-> oi, cached_info |-> info],
                result |-> BuildResponse(oi, info, 0)]
    /\ UNCHANGED <<qvars, bvars, svars, cvars, lvars, yvars>>

\* enum RequestType: the kinds of request a strategy sends about an order
NEWORDER == 0
MODIFYORDER == 1
CANCELORDER == 2
RequestTypes == {NEWORDER, MODIFYORDER, CANCELORDER}

\* the RequestMsg values the request queue can carry: Quantity is an int32
\* and nothing on the way to the bridge keeps it positive; Request_Type is
\* whatever the strategy wrote
WireRequests ==
    [Request_Type : RequestTypes, OrderID : {1}, StrategyID : StrategyIDs,
     Symbol : Symbols, Transaction_Type : Sides,
     Quantity : (0 - MaxBadQty) .. MaxQty, Exchange_Type : ExchangeTypes, Price : {LimitPrice}]

\* OrderRequestProcessor, lines 564-622: one request whose symbol has a
\* broker, from SetCombOffsetFlag to the call of broker->SendOrder: the
\* ledger afterwards, the responses enqueued on the way, and whether
\* SendOrder is reached.  No statement between the dequeue and the call
\* looks at Quantity except SetCombOffsetFlag's comparisons and the cast
\* of it to the uint32 volume, and none reads Request_Type.
ProcessRequest(req, pos) ==
    LET r == SetCombOffsetFlag(pos, req.Transaction_Type, req.Quantity, req.Exchange_Type)
    IN  [pos |-> r.pos, responses |-> <<>>, send_order |-> TRUE,
         offset |-> OffsetOf(r.flag)]

\* the symbols the ledger has entries for when updatePosition is called
LedgerSymbols == {"ag2506", "IF2506"}

\* the ledgers of all symbols: overnight and today buckets of each symbol
Books ==
    [LedgerSymbols -> {[ONLongPos |-> a, todayLongPos |-> b, ONShortPos |-> a,
                        todayShortPos |-> b] : a \in 0 .. MaxBook, b \in 0 .. MaxBook}]

\* the fields of a ResponseMsg that updatePosition reads
LedgerResponses ==
    {[NoResp EXCEPT !.Response_Type = ty, !.Side = sd, !.Quantity = q] :
        ty \in {NEW_ORDER_CONFIRM, CANCEL_ORDER_CONFIRM, TRADE_CONFIRM, ORDER_ERROR,
                ORS_REJECT, RMS_REJECT},
        sd \in Sides, q \in 0 .. MaxQty}

\* the fields of a CachedOrderInfo that updatePosition reads
LedgerInfos ==
    {[NoCached EXCEPT !.symbol = sym, !.side = sd, !.openCloseFlag = f] :
        sym \in LedgerSymbols, sd \in Sides,
        f \in {OPEN_ORDER, CLOSE_TODAY_FLAG, CLOSE_YESTD_FLAG}}

\* updatePosition on the whole g_mapContractPos: lines 221-222 pick the
\* entry of info.symbol, the rest of the function works on that entry
updatePositionOf(book, resp, info) ==
    [book EXCEPT ![info.symbol] = updatePosition(@, resp, info)]

\* updatePosition(&resp, info) with the ledger being book
CallBridgeUpdatePosition(book, resp, info) ==
    /\ call = NoCall
    /\ call' = [fn |-> "updatePosition", args |-> [book |-> book, resp |-> resp, info |-> info],
                result |-> updatePositionOf(book, resp, info)]
    /\ UNCHANGED <<qvars, bvars, svars, cvars, lvars, yvars>>

CallOrderRequestProcessor(req, pos) ==
    /\ call = NoCall
    /\ call' = [fn |-> "OrderRequestProcessor", args |-> [req |-> req, pos |-> pos],
                result |-> ProcessRequest(req, pos)]
    /\ UNCHANGED <<qvars, bvars, svars, cvars, lvars, yvars>>

\* UpdatePosition (lines 533-670) as a function of the position table: the
\* table after the trade has been booked
UpdatePosition(positions, trade) ==
    IF trade.offset = "OPEN"
    THEN LET key == PosKey(trade.symbol, trade.direction)
             pos == IF key \in DOMAIN positions THEN positions[key] ELSE ZeroSimPos
         IN  (key :> OpenPosition(pos, trade)) @@ positions
    ELSE LET key == CloseKey(trade) IN
         IF key \notin DOMAIN positions THEN positions
         ELSE IF positions[key].volume = 0 THEN positions
         ELSE LET pos == positions[key]
                  c == CloseQty(pos, trade)
                  newpos == [pos EXCEPT !.volume = @ - c[1], !.today_volume = @ - c[2],
                                        !.yesterday_volume = @ - c[3]]
              IN  IF c[1] = 0 THEN positions
                  ELSE IF newpos.volume = 0
                  THEN [k \in DOMAIN positions \ {key} |-> positions[k]]
                  ELSE [positions EXCEPT ![key] =
                           [newpos EXCEPT !.margin = CalculateMargin(trade.price, newpos.volume)]]

\* the trades ProcessOrderImmediate can build: fill prices one slippage
\* step off the limit price
Trades ==
    [order_id : {1}, symbol : Symbols, direction : {"BUY", "SELL"},
     offset : {"OPEN", "CLOSE_TODAY", "CLOSE"},
     price : {LimitPrice - slippage_ticks, LimitPrice + slippage_ticks},
     volume : 1 .. MaxQty]

\* the position table of a simulator that has booked nothing yet
NoBooking == [fn |-> "UpdatePosition", trades |-> <<>>, positions |-> <<>>, opens |-> <<>>]

\* UpdatePosition(trade) called on the table the earlier calls left; opens
\* keeps, for each entry of the table, the opening trades booked on it
\* since it was created
CallUpdatePosition(trade) ==
    /\ call.fn \in {"none", "UpdatePosition"}
    /\ LET before == IF call = NoCall THEN NoBooking ELSE call
           key == PosKey(trade.symbol, trade.direction)
       IN  /\ Len(before.trades) < MaxTrades
           /\ call' = [fn |-> "UpdatePosition",
                       trades |-> Append(before.trades, trade),
                       positions |-> UpdatePosition(before.positions, trade),
                       opens |-> IF trade.offset # "OPEN" THEN before.opens
                                 ELSE IF key \in DOMAIN before.positions
                                 THEN [before.opens EXCEPT ![key] = Append(@, trade)]
                                 ELSE (key :> <<trade>>) @@ before.opens]
    /\ UNCHANGED <<qvars, bvars, svars, cvars, lvars, yvars>>

FInit == call = NoCall

(***************************************************************************)
(* The bridge's locking: g_posLock (the ledger) and g_orders_mutex (the    *)
(* cached orders), one action per lock, unlock and blocking call of        *)
(* OrderRequestProcessor and OnBrokerOrderCallback.  What the threads      *)
(* compute between these points is left out: every branch can be taken.    *)
(***************************************************************************)
\* the threads that run OnBrokerOrderCallback: the drain thread (a plugin
\* calls back from inside SendOrder), the CTP SPI thread and the
\* simulator's fill threads
CallbackThreads == {DrainT, SpiT} \cup TaskIds

\* std::lock_guard on mutex m by thread t: the thread goes on only once
\* nobody holds m (the unlock is the end of the lock_guard's scope)
Acquire(m, t) == m = {}

\* lines 539-562: while (g_running): the queue is empty (sleep), or a request
\* is dequeued and has no broker (ORS_REJECT), or it has one
OrpPoll ==
    /\ orp = "poll"
    /\ orp' \in {"sleep", "reject_enqueue", "flag_lock"}
    /\ UNCHANGED <<g_posLock, g_orders_mutex, obc>>
    /\ UNCHANGED notLock

\* line 669: sleep_for(100 us)
OrpSleep ==
    /\ orp = "sleep"
    /\ orp' = "poll"
    /\ UNCHANGED <<g_posLock, g_orders_mutex, obc>>
    /\ UNCHANGED notLock

\* line 560: g_response_queue->enqueue(resp) of the ORS_REJECT, continue
OrpRejectEnqueue ==
    /\ orp = "reject_enqueue"
    /\ orp' = "poll"
    /\ UNCHANGED <<g_posLock, g_orders_mutex, obc>>
    /\ UNCHANGED notLock

\* lines 567, 167: SetCombOffsetFlag takes g_posLock
OrpFlagLock ==
    /\ orp = "flag_lock"
    /\ Acquire(g_posLock, DrainT)
    /\ g_posLock' = {DrainT}
    /\ orp' = "flag"
    /\ UNCHANGED <<g_orders_mutex, obc>>
    /\ UNCHANGED notLock

\* lines 168-210: the flag is derived, SetCombOffsetFlag returns and the
\* lock_guard releases g_posLock; lines 569-617 build the unified request
OrpFlagUnlock ==
    /\ orp = "flag"
    /\ g_posLock' = g_posLock \ {DrainT}
    /\ orp' = "call_send"
    /\ UNCHANGED <<g_orders_mutex, obc>>
    /\ UNCHANGED notLock

\* line 619: broker->SendOrder(unified_req) is called
OrpCallSendOrder ==
    /\ orp = "call_send"
    /\ orp' = "in_send"
    /\ UNCHANGED <<g_posLock, g_orders_mutex, obc>>
    /\ UNCHANGED notLock

\* lines 619-657: SendOrder returns an id (cache it), an empty id (error
\* response) or throws (caught at 657, back to the loop)
OrpSendOrderReturn ==
    /\ orp = "in_send"
    /\ obc[DrainT] = "none"
    /\ orp' \in {"cache_lock", "unfreeze_lock", "poll"}
    /\ UNCHANGED <<g_posLock, g_orders_mutex, obc>>
    /\ UNCHANGED notLock

\* line 625: lock_guard on g_orders_mutex
OrpCacheLock ==
    /\ orp = "cache_lock"
    /\ Acquire(g_orders_mutex, DrainT)
    /\ g_orders_mutex' = {DrainT}
    /\ orp' = "cache"
    /\ UNCHANGED <<g_posLock, obc>>
    /\ UNCHANGED notLock

\* lines 626-635: g_order_map[broker_order_id] = info, end of the scope
OrpCacheUnlock ==
    /\ orp = "cache"
    /\ g_orders_mutex' = g_orders_mutex \ {DrainT}
    /\ orp' = "poll"
    /\ UNCHANGED <<g_posLock, obc>>
    /\ UNCHANGED notLock

\* lines 653, 221: updatePosition(&resp, tmpInfo) takes g_posLock
OrpUnfreezeLock ==
    /\ orp = "unfreeze_lock"
    /\ Acquire(g_posLock, DrainT)
    /\ g_posLock' = {DrainT}
    /\ orp' = "unfreeze"
    /\ UNCHANGED <<g_orders_mutex, obc>>
    /\ UNCHANGED notLock

\* lines 222-257: updatePosition returns, g_posLock is released
OrpUnfreezeUnlock ==
    /\ orp = "unfreeze"
    /\ g_posLock' = g_posLock \ {DrainT}
    /\ orp' = "failed_enqueue"
    /\ UNCHANGED <<g_orders_mutex, obc>>
    /\ UNCHANGED notLock

\* line 655: g_response_queue->enqueue(resp) of the ORDER_ERROR
OrpFailedEnqueue ==
    /\ orp = "failed_enqueue"
    /\ orp' = "poll"
    /\ UNCHANGED <<g_posLock, g_orders_mutex, obc>>
    /\ UNCHANGED notLock

\* a plugin calls m_order_callback on thread t; on the drain thread that
\* can only be from inside SendOrder
ObcEnter(t) ==
    /\ obc[t] = "none"
    /\ t = DrainT => orp = "in_send"
    /\ obc' = [obc EXCEPT ![t] = "lookup_lock"]
    /\ UNCHANGED <<g_posLock, g_orders_mutex, orp>>
    /\ UNCHANGED notLock

\* line 453: lock_guard on g_orders_mutex
ObcLookupLock(t) ==
    /\ obc[t] = "lookup_lock"
    /\ Acquire(g_orders_mutex, t)
    /\ g_orders_mutex' = {t}
    /\ obc' = [obc EXCEPT ![t] = "lookup"]
    /\ UNCHANGED <<g_posLock, orp>>
    /\ UNCHANGED notLock

\* a lookup whose lock_guard lives until the callback returns
ObcLookupUnlock_FunctionScope(t) ==
    /\ obc[t] = "lookup"
    /\ obc' \in {[obc EXCEPT ![t] = "upd_lock"], [obc EXCEPT ![t] = "none"]}
    /\ g_orders_mutex' = IF obc'[t] = "none" THEN g_orders_mutex \ {t}
                                               ELSE g_orders_mutex
    /\ UNCHANGED <<g_posLock, orp>>
    /\ UNCHANGED notLock

\* lines 454-461: the order is found (copied, scope ends) or is not
\* (return): either way the lock_guard releases g_orders_mutex
ObcLookupUnlock(t) ==
    /\ obc[t] = "lookup"
    /\ g_orders_mutex' = g_orders_mutex \ {t}
    /\ obc' \in {[obc EXCEPT ![t] = "upd_lock"], [obc EXCEPT ![t] = "none"]}
    /\ UNCHANGED <<g_posLock, orp>>
    /\ UNCHANGED notLock

\* lines 507, 221: updatePosition(&resp, cached_info) takes g_posLock
ObcUpdLock(t) ==
    /\ obc[t] = "upd_lock"
    /\ Acquire(g_posLock, t)
    /\ g_posLock' = {t}
    /\ obc' = [obc EXCEPT ![t] = "upd"]
    /\ UNCHANGED <<g_orders_mutex, orp>>
    /\ UNCHANGED notLock

\* lines 222-257: updatePosition returns, g_posLock is released
ObcUpdUnlock(t) ==
    /\ obc[t] = "upd"
    /\ g_posLock' = g_posLock \ {t}
    /\ obc' = [obc EXCEPT ![t] = "enqueue"]
    /\ UNCHANGED <<g_orders_mutex, orp>>
    /\ UNCHANGED notLock

\* line 510: g_response_queue->enqueue(resp), the callback returns
ObcEnqueue(t) ==
    /\ obc[t] = "enqueue"
    /\ obc' = [obc EXCEPT ![t] = "none"]
    /\ UNCHANGED <<g_posLock, g_orders_mutex, orp>>
    /\ UNCHANGED notLock

\* start-up: both mutexes free, the drain thread at the top of its loop
LInit ==
    /\ g_posLock = {}
    /\ g_orders_mutex = {}
    /\ orp = "poll"
    /\ obc = [t \in CallbackThreads |-> "none"]

LockNext ==
    \/ OrpPoll
    \/ OrpSleep
    \/ OrpRejectEnqueue
    \/ OrpFlagLock
    \/ OrpFlagUnlock
    \/ OrpCallSendOrder
    \/ OrpSendOrderReturn
    \/ OrpCacheLock
    \/ OrpCacheUnlock
    \/ OrpUnfreezeLock
    \/ OrpUnfreezeUnlock
    \/ OrpFailedEnqueue
    \/ \E t \in CallbackThreads : ObcEnter(t)
    \/ \E t \in CallbackThreads : ObcLookupLock(t)
    \/ \E t \in CallbackThreads : ObcLookupUnlock(t)
    \/ \E t \in CallbackThreads : ObcUpdLock(t)
    \/ \E t \in CallbackThreads : ObcUpdUnlock(t)
    \/ \E t \in CallbackThreads : ObcEnqueue(t)

(***************************************************************************)
(* The CTP plugin's synchronous queries QueryAccount, QueryOrders and      *)
(* QueryTrades (one shape, lines 717-747, 833-864, 890-921) and the        *)
(* OnRspQry... handlers of the SPI thread that complete them               *)
(***************************************************************************)
\* the thread that calls the query functions
QueryT == -3

QueryFns == {"QueryAccount", "QueryOrders", "QueryTrades"}

\* the call: m_logged_in is true, so the function goes on to its lock_guard
QueryEnter(fn) ==
    /\ qpc \in {"idle", "thrown"}
    /\ m_logged_in
    /\ ncalls < MaxQueries
    /\ qfn' = fn
    /\ qpc' = "lock"
    /\ qres' = "none"
    /\ ncalls' = ncalls + 1
    /\ UNCHANGED <<m_query_mutex, m_query_finished, pending, rpc>>
    /\ UNCHANGED notQuery

\* std::lock_guard<std::mutex> lock(m_query_mutex); m_query_finished = false
QueryLock ==
    /\ qpc = "lock"
    /\ m_query_mutex = {}
    /\ m_query_mutex' = {QueryT}
    /\ m_query_finished' = FALSE
    /\ qpc' = "req"
    /\ UNCHANGED <<qfn, qres, ncalls, pending, rpc>>
    /\ UNCHANGED notQuery

\* m_api->ReqQry...(&req, ++m_request_id): a non-zero ret returns false (the
\* lock_guard releases the mutex); with 0 the counter owes a response
QueryReq(ret) ==
    /\ qpc = "req"
    /\ IF ret # 0
       THEN /\ qres' = "false"
            /\ qpc' = "idle"
            /\ m_query_mutex' = m_query_mutex \ {QueryT}
            /\ UNCHANGED pending
       ELSE /\ pending' = pending + 1
            /\ qpc' = "relock"
            /\ UNCHANGED <<qres, m_query_mutex>>
    /\ UNCHANGED <<m_query_finished, qfn, ncalls, rpc>>
    /\ UNCHANGED notQuery

\* std::unique_lock<std::mutex> ulock(m_query_mutex) while the lock_guard of
\* the same function still holds the mutex: locking a std::mutex the
\* thread owns is undefined.  The lock call never returns (the default
\* pthread mutex), or it fails with EDEADLK and std::system_error leaves
\* the function (the lock_guard then releases), or the second lock is
\* granted (a mutex that does not record its owner, e.g. under elision).
QueryRelock(outcome) ==
    /\ qpc = "relock"
    /\ QueryT \in m_query_mutex
    /\ CASE outcome = "blocked" -> qpc' = "blocked" /\ UNCHANGED m_query_mutex
         [] outcome = "thrown" -> qpc' = "thrown" /\ m_query_mutex' = {}
         [] OTHER -> qpc' = "wait" /\ UNCHANGED m_query_mutex
    /\ UNCHANGED <<m_query_finished, qfn, qres, ncalls, pending, rpc>>
    /\ UNCHANGED notQuery

\* m_query_cv.wait_for(ulock, 5 s, pred): the mutex is released while the
\* thread sleeps
QueryWait ==
    /\ qpc = "wait"
    /\ m_query_mutex' = m_query_mutex \ {QueryT}
    /\ qpc' = "waiting"
    /\ UNCHANGED <<m_query_finished, qfn, qres, ncalls, pending, rpc>>
    /\ UNCHANGED notQuery

\* wait_for returns: notified with m_query_finished set, or the 5 s are
\* over; either way the mutex is taken again first
QueryWake(timeout) ==
    /\ qpc = "waiting"
    /\ m_query_finished \/ timeout
    /\ m_query_mutex = {}
    /\ m_query_mutex' = {QueryT}
    /\ qpc' = "woken"
    /\ UNCHANGED <<m_query_finished, qfn, qres, ncalls, pending, rpc>>
    /\ UNCHANGED notQuery

\* if (!m_query_finished) return false; ... return true; both locks go out
\* of scope
QueryReturn ==
    /\ qpc = "woken"
    /\ qres' = IF m_query_finished THEN "true" ELSE "false"
    /\ m_query_mutex' = m_query_mutex \ {QueryT}
    /\ qpc' = "idle"
    /\ UNCHANGED <<m_query_finished, qfn, ncalls, pending, rpc>>
    /\ UNCHANGED notQuery

\* the counter answers a query: the SPI thread enters OnRspQry... with an
\* error or with bIsLast and goes for its lock_guard
OnRspQry ==
    /\ rpc = "idle"
    /\ pending > 0
    /\ pending' = pending - 1
    /\ rpc' = "lock"
    /\ UNCHANGED <<m_query_mutex, m_query_finished, qfn, qpc, qres, ncalls>>
    /\ UNCHANGED notQuery

\* lock_guard lock(m_query_mutex); m_query_finished = true; notify_one()
OnRspQryFinish ==
    /\ rpc = "lock"
    /\ m_query_mutex = {}
    /\ m_query_finished' = TRUE
    /\ rpc' = "idle"
    /\ UNCHANGED <<m_query_mutex, qfn, qpc, qres, ncalls, pending>>
    /\ UNCHANGED notQuery

\* the query thread's steps and the SPI thread's
QueryThread ==
    \/ QueryLock
    \/ \E ret \in {0, -1} : QueryReq(ret)
    \/ \E outcome \in {"blocked", "thrown", "granted"} : QueryRelock(outcome)
    \/ QueryWait
    \/ \E timeout \in BOOLEAN : QueryWake(timeout)
    \/ QueryReturn

QueryNext ==
    \/ \E fn \in QueryFns : QueryEnter(fn)
    \/ QueryThread
    \/ OnRspQry
    \/ OnRspQryFinish

\* start-up: no query under way
YInit ==
    /\ m_query_mutex = {}
    /\ m_query_finished = FALSE
    /\ qfn = "none"
    /\ qpc = "idle"
    /\ qres = "none"
    /\ ncalls = 0
    /\ pending = 0
    /\ rpc = "idle"

(***************************************************************************)
(* Specifications                                                          *)
(***************************************************************************)
\* the whole process right after start-up
Init == QInit /\ BInit /\ SInit /\ CInit /\ FInit /\ LInit /\ YInit

\* the ring queue on its own: the bridge and the plugins stay as started
InitQ ==
    /\ Init
    /\ g_mapContractPos = [s \in Symbols |-> ZeroPos]
    /\ listing = [s \in Symbols |-> CHINA_SHFE]
    /\ g_brokers = {"simulator"}
    /\ mode = "immediate"

SpecQ == InitQ /\ [][QNext]_vars

\* the consumer has taken something out of the ring, or is about to
ConsumerStarted == cpc # "check" \/ Len(deq) > 0

\* no writer is inside enqueue
WritersIdle == \A w \in Writers : wpc[w] = "idle"

\* the ring filled and then drained: the calls of enqueue come one after
\* the other, each running to completion, and the consumer starts polling
\* only after the last of them; nothing is enqueued once it has started
QSeqNext ==
    \/ /\ ~ConsumerStarted
       /\ WritersIdle
       /\ \E w \in Writers, v \in Vals : EnqClaim(w, v)
    \/ \E w \in Writers : EnqCopy1(w)
    \/ \E w \in Writers : EnqCopy2(w)
    \/ \E w \in Writers : EnqStoreSeq(w)
    \/ /\ WritersIdle
       /\ ConsCheck
    \/ ConsCopy1
    \/ ConsCopy2
    \/ ConsAdvance

InitQSeq == InitQ

SpecQSeq == InitQSeq /\ [][QSeqNext]_vars

\* the ring under flow control: a producer calls enqueue only while fewer
\* than m_size claimed sequence numbers are still ahead of the consumer
QFlowNext ==
    \/ /\ head - m_tail < m_size
       /\ \E w \in Writers, v \in Vals : EnqClaim(w, v)
    \/ \E w \in Writers : EnqCopy1(w)
    \/ \E w \in Writers : EnqCopy2(w)
    \/ \E w \in Writers : EnqStoreSeq(w)
    \/ ConsCheck
    \/ ConsCopy1
    \/ ConsCopy2
    \/ ConsAdvance

InitQFlow == InitQ

SpecQFlow == InitQFlow /\ [][QFlowNext]_vars

\* the bridge's threads at the level of their locks
InitLock == InitQ

SpecLock == InitLock /\ [][LockNext]_vars

\* the CTP plugin's queries: a thread calling them and the SPI thread
InitQuery == InitQ

\* both threads are scheduled, and the 5 s of wait_for pass
QueryFairness ==
    /\ WF_vars(QueryThread)
    /\ WF_vars(OnRspQryFinish)

SpecQueryLive == InitQuery /\ [][QueryNext]_vars /\ QueryFairness

\* the request-drain thread with the simulator as broker
SimDrain ==
    \/ \E req \in Requests(nextOID) : DrainDequeue(req)
    \/ SimSendOrder
    \/ SimCheckRiskPosition
    \/ SimCheckRiskFunds
    \/ SimCheckRiskDailyLoss
    \/ SimStoreAndNotify
    \/ SimSendOrderReturn
    \/ DrainCache

\* the detached thread of order i
ProcessOrderImmediate(i) ==
    \/ TaskAccept(i)
    \/ TaskAcceptUnlock(i)
    \/ TaskFillCheck(i)
    \/ TaskFill(i)
    \/ TaskStoreTrade(i)
    \/ TaskUpdatePosition(i)
    \/ TaskClosePnl(i)
    \/ TaskUpdateAccountLock(i)
    \/ TaskUpdateAccount(i)

SimNext ==
    \/ SimDrain
    \/ \E i \in TaskIds : ProcessOrderImmediate(i)
    \/ \E id \in TaskIds : SimCancelOrder(id)
    \/ SimCancelReturn
    \/ \E t \in Threads : CbEnqueue(t)

\* counter_bridge started with simulator:<config>
InitSim == Init /\ g_brokers = {"simulator"}

SpecSim == InitSim /\ [][SimNext]_vars

\* the threads that act on an order after SendOrder has returned its id are
\* scheduled: its detached ProcessOrderImmediate thread, a thread inside
\* CancelOrder and a running order callback each take their next step when
\* they can.  The arrival of requests and the calls of CancelOrder are the
\* strategy's.
SimFairness ==
    /\ \A i \in TaskIds : WF_vars(ProcessOrderImmediate(i))
    /\ WF_vars(SimCancelReturn)
    /\ \A t \in Threads : WF_vars(CbEnqueue(t))

SpecSimLive == InitSim /\ [][SimNext]_vars /\ SimFairness

\* the request-drain thread with the CTP plugin as broker
CtpDrain ==
    \/ \E req \in Requests(nextOID) : DrainDequeue(req)
    \/ \E req \in Requests(nextOID) : DrainNoBroker(req)
    \/ CtpSendOrderNotConfirmed
    \/ \E ret \in {0, -1} : CtpReqOrderInsert(ret)
    \/ CtpSaveOrder
    \/ DrainCache
    \/ DrainSendFailed

\* the SPI thread of the CTP API
CtpSpi ==
    \/ \E b \in TaskIds : \E st \in CtpStatuses : \E vt \in 0 .. MaxQty : CtpOnRtnOrder(b, st, vt)
    \/ \E b \in TaskIds : CtpOnRspOrderInsert(b)
    \/ CtpOnFrontDisconnected
    \/ CbEnqueue(SpiT)

CtpNext == CtpDrain \/ CtpSpi

\* counter_bridge started with ctp:<config>; the simulator is not loaded
InitCtp == Init /\ g_brokers = {"ctp"} /\ mode = "immediate"

SpecCtp == InitCtp /\ [][CtpNext]_vars



\* the program's functions called one at a time; nothing else runs
FnNext ==
    \/ /\ call = NoCall
       /\ \E pos \in Ledgers : \E side \in Sides : \E qty \in 1 .. MaxCallQty :
             \E e \in AllExchangeTypes : CallSetCombOffsetFlag(pos, side, qty, e)
    \/ /\ call = NoCall
       /\ \E oi \in OrderInfos(1) : \E info \in CachedInfos :
             CallOnBrokerOrderCallback(oi, info)
    \/ /\ call = NoCall
       /\ \E req \in WireRequests : \E pos \in Ledgers : CallOrderRequestProcessor(req, pos)
    \/ /\ call = NoCall
       /\ \E book \in Books : \E resp \in LedgerResponses : \E info \in LedgerInfos :
             CallBridgeUpdatePosition(book, resp, info)

InitFn == InitQ

SpecFn == InitFn /\ [][FnNext]_vars

\* trades booked one after the other on the simulator's position table
PosNext == \E trade \in Trades : CallUpdatePosition(trade)

InitPosTable == InitQ

SpecPos == InitPosTable /\ [][PosNext]_vars

(***************************************************************************)
(* C1: a single consumer that dequeues only when isEmpty is false sees     *)
(* strictly increasing seqNo values on successive dequeues, with any       *)
(* number of concurrent enqueuers, also ones that lap the ring or stall    *)
(* between claiming a sequence number and storing seqNo.                   *)
(***************************************************************************)
C1_DequeuedSeqNoStrictlyIncreasing ==
    \A i \in 1 .. Len(deq) : \A j \in 1 .. Len(deq) :
        i < j => deq[i][1] < deq[j][1]

(***************************************************************************)
(* Properties of the bridge routing to the simulator                       *)
(***************************************************************************)
\* the responses enqueued for OrderID o, in queue order
ResponsesOf(o) == SelectSeq(respQ, LAMBDA r : r.OrderID = o)

\* their Response_Type values
TypesOf(o) == [k \in 1 .. Len(ResponsesOf(o)) |-> ResponsesOf(o)[k].Response_Type]

\* broker order id b has been cached by the drain thread, the simulator has
\* finished with it and no order callback is running: nothing more will
\* happen for it
SimOrderSettled(b) ==
    /\ b \in DOMAIN g_order_map
    /\ \/ m_orders[b].status = "REJECTED"
       \/ tpc[b] = "done"
       \/ tpc[b] = "none" /\ m_orders[b].status = "CANCELED"
    /\ \A t \in Threads : cbk[t].stage = "none"
    /\ xpc = "idle"

\* C2: an order that ended fully rejected or fully cancelled with no fills
\* (a rejection by the simulator's risk check inside SendOrder included)
\* has a net ledger change of exactly 0 in all four buckets.
C2_UnfilledOrderNetLedgerChangeZero ==
    \A b \in DOMAIN g_order_map :
        ( /\ SimOrderSettled(b)
          /\ m_orders[b].status \in {"REJECTED", "CANCELED"}
          /\ m_orders[b].traded_volume = 0 )
        => delta[g_order_map[b].order_id] = ZeroPos

\* C3: once SendOrder has returned a non-empty broker order id and the plugin
\* has fired all the callbacks it will ever fire for the order, the response
\* queue holds for that OrderID exactly one of: a NEW_ORDER_CONFIRM followed
\* by at least one TRADE_CONFIRM or CANCEL_ORDER_CONFIRM, or an ORDER_ERROR.
C3_ConfirmedThenDone(o) ==
    /\ Len(TypesOf(o)) >= 2
    /\ TypesOf(o)[1] = NEW_ORDER_CONFIRM
    /\ \E k \in 2 .. Len(TypesOf(o)) : TypesOf(o)[k] \in {TRADE_CONFIRM, CANCEL_ORDER_CONFIRM}

C3_Errored(o) == \E k \in 1 .. Len(TypesOf(o)) : TypesOf(o)[k] = ORDER_ERROR

C3_EverySentOrderGetsItsOutcome ==
    \A b \in DOMAIN g_order_map :
        SimOrderSettled(b) =>
            LET o == g_order_map[b].order_id
            IN  C3_ConfirmedThenDone(o) # C3_Errored(o)

\* C8: after the simulator has fired the order callback with status CANCELED
\* for an order, it fires no ACCEPTED or FILLED order callback and no trade
\* callback for it, and updates no position and no account because of it.
C8_NothingAfterCanceled ==
    \A b \in TaskIds :
        \A k \in 1 .. Len(plugEv[b]) : \A l \in 1 .. Len(plugEv[b]) :
            (k < l /\ plugEv[b][k] = "CANCELED")
            => plugEv[b][l] \notin {"ACCEPTED", "FILLED", "TRADE", "POSITION", "ACCOUNT"}

C10_RiskRejectAnsweredOnce ==
    \A b \in DOMAIN g_order_map :
        m_orders[b].status = "REJECTED" =>
            LET o == g_order_map[b].order_id IN
            /\ Cardinality({k \in 1 .. Len(TypesOf(o)) :
                               TypesOf(o)[k] \in {ORDER_ERROR, RMS_REJECT}}) = 1
            /\ \A k \in 1 .. Len(TypesOf(o)) : TypesOf(o)[k] # TRADE_CONFIRM
            /\ delta[o] = ZeroPos

(***************************************************************************)
(* Properties of the bridge routing to the CTP plugin                      *)
(***************************************************************************)
\* the response types that give a quantity back to the ledger
RefundTypes == {ORDER_ERROR, ORS_REJECT, RMS_REJECT, CANCEL_ORDER_CONFIRM}

\* debit d with u given back to the bucket that d took from
Refunded(d, u) ==
    [ONLongPos |-> IF d.ONLongPos < 0 THEN d.ONLongPos + u ELSE 0,
     todayLongPos |-> IF d.todayLongPos < 0 THEN d.todayLongPos + u ELSE 0,
     ONShortPos |-> IF d.ONShortPos < 0 THEN d.ONShortPos + u ELSE 0,
     todayShortPos |-> IF d.todayShortPos < 0 THEN d.todayShortPos + u ELSE 0]

\* C4: if SetCombOffsetFlag debited a bucket when the order was dispatched
\* and the bridge then processes a reject or cancel response with unfilled
\* quantity u for it, u is credited to that same bucket and no other bucket
\* changes, for both sides and every exchange.
C4_RefundGoesToDebitedBucket ==
    \A o \in 1 .. MaxOrders :
        ( /\ dispatch[o].debit # ZeroPos
          /\ Len(ResponsesOf(o)) = 1
          /\ ResponsesOf(o)[1].Response_Type \in RefundTypes
          /\ \A t \in Threads : cbk[t].resp.OrderID # o )
        => delta[o] = Refunded(dispatch[o].debit, ResponsesOf(o)[1].Quantity)

\* C5: all four ledger buckets of every symbol are >= 0 in every reachable
\* state, however the drain thread's SetCombOffsetFlag and the callback
\* thread's updatePosition interleave.
C5_BucketsNeverNegative ==
    \A s \in Symbols :
        /\ g_mapContractPos[s].ONLongPos >= 0
        /\ g_mapContractPos[s].todayLongPos >= 0
        /\ g_mapContractPos[s].ONShortPos >= 0
        /\ g_mapContractPos[s].todayShortPos >= 0

\* C5 witness: the drain thread has just debited a bucket for one order
\* while the SPI thread is inside the callback that gave a quantity back
\* for another order that had debited a bucket.
C5_Witness ==
    /\ dpc = "send"
    /\ dispatch[dreq.OrderID].debit # ZeroPos
    /\ cbk[SpiT].stage = "enqueue"
    /\ cbk[SpiT].resp.OrderID # dreq.OrderID
    /\ cbk[SpiT].resp.Response_Type \in RefundTypes
    /\ cbk[SpiT].resp.Quantity > 0
    /\ dispatch[cbk[SpiT].resp.OrderID].debit # ZeroPos

\* C6: for an order dispatched with flag Open that has reached a terminal
\* state, the net change of the today bucket of its direction equals the
\* order's total filled quantity, whatever PartialFilled and Filled
\* callbacks carrying the cumulative traded volume were delivered.
C6_OpenOrderCreditsFilledQuantity ==
    \A b \in DOMAIN g_order_map :
        ( /\ g_order_map[b].openCloseFlag = OPEN_ORDER
          /\ front[b].OrderStatus \in {"AllTraded", "Canceled"}
          /\ cbk[SpiT].stage = "none" )
        => LET d == delta[g_order_map[b].order_id]
           IN  (IF g_order_map[b].side = SIDE_BUY THEN d.todayLongPos ELSE d.todayShortPos)
                   = front[b].VolumeTraded

\* a response after which the order is over
C7_Terminal(r) ==
    \/ r.Response_Type \in RefundTypes
    \/ r.Response_Type = TRADE_CONFIRM /\ r.Quantity = dispatch[r.OrderID].qty

\* C7: the responses of one OrderID form a valid lifecycle: confirms come
\* before trade and cancel responses, nothing follows the terminal response
\* (full fill, cancel confirm or error), and so no ORDER_ERROR is followed
\* by a confirm, a trade or a cancel of the same order.
C7_ValidLifecyclePerOrder ==
    \A o \in 1 .. MaxOrders :
        \A k \in 1 .. Len(ResponsesOf(o)) : \A l \in 1 .. Len(ResponsesOf(o)) :
            k < l =>
                /\ ~C7_Terminal(ResponsesOf(o)[k])
                /\ ResponsesOf(o)[l].Response_Type = NEW_ORDER_CONFIRM
                       => ResponsesOf(o)[k].Response_Type = NEW_ORDER_CONFIRM

(***************************************************************************)
(* Properties of single function calls                                     *)
(***************************************************************************)
\* the flag and ledger that C11 describes for SetCombOffsetFlag
C11_Described(pos, side, qty, exchangeType) ==
    IF side = SIDE_BUY THEN
        IF qty <= pos.todayShortPos /\ exchangeType = CHINA_SHFE
        THEN [flag |-> CLOSE_TODAY_FLAG, pos |-> [pos EXCEPT !.todayShortPos = @ - qty]]
        ELSE IF qty <= pos.ONShortPos
        THEN [flag |-> CLOSE_YESTD_FLAG, pos |-> [pos EXCEPT !.ONShortPos = @ - qty]]
        ELSE [flag |-> OPEN_ORDER, pos |-> pos]
    ELSE
        IF qty <= pos.todayLongPos /\ exchangeType = CHINA_SHFE
        THEN [flag |-> CLOSE_TODAY_FLAG, pos |-> [pos EXCEPT !.todayLongPos = @ - qty]]
        ELSE IF qty <= pos.ONLongPos
        THEN [flag |-> CLOSE_YESTD_FLAG, pos |-> [pos EXCEPT !.ONLongPos = @ - qty]]
        ELSE [flag |-> OPEN_ORDER, pos |-> pos]

\* C11: for a Buy of q SetCombOffsetFlag returns CloseToday and debits
\* todayShort exactly when q <= todayShort and the exchange is SHFE;
\* otherwise, if q <= ONShort, CloseYesterday and a debit of ONShort;
\* otherwise Open and no debit.  Sell is symmetric on todayLong / ONLong.
C11_DeriveOffsetAsDescribed ==
    call.fn = "SetCombOffsetFlag" =>
        call.result = C11_Described(call.args.pos, call.args.side, call.args.qty,
                                    call.args.exchangeType)

\* C12: for a callback whose broker order id is cached the enqueued response
\* carries the cached OrderID, StrategyID, Side and Symbol; ACCEPTED and
\* SUBMITTED give NEW_ORDER_CONFIRM with Quantity 0, PARTIAL_FILLED and FILLED
\* give TRADE_CONFIRM with Quantity = traded_volume, CANCELED gives
\* CANCEL_ORDER_CONFIRM with Quantity = ordered - traded, REJECTED and ERROR
\* give ORDER_ERROR with ErrorCode 1 and Quantity = ordered volume.
C12_ResponseMapsStatus ==
    call.fn = "OnBrokerOrderCallback" =>
        LET oi == call.args.order_info
            info == call.args.cached_info
            r == call.result
        IN  /\ r.OrderID = info.order_id
            /\ r.StrategyID = info.strategy_id
            /\ r.Side = info.side
            /\ r.Symbol = info.symbol
            /\ oi.status \in {"ACCEPTED", "SUBMITTED"} =>
                   r.Response_Type = NEW_ORDER_CONFIRM /\ r.Quantity = 0
            /\ oi.status \in {"PARTIAL_FILLED", "FILLED"} =>
                   r.Response_Type = TRADE_CONFIRM /\ r.Quantity = oi.traded_volume
            /\ oi.status = "CANCELED" =>
                   /\ r.Response_Type = CANCEL_ORDER_CONFIRM
                   /\ r.Quantity = oi.volume - oi.traded_volume
            /\ oi.status \in {"REJECTED", "ERROR"} =>
                   /\ r.Response_Type = ORDER_ERROR
                   /\ r.ErrorCode = 1
                   /\ r.Quantity = oi.volume

\* C12 witness: the callback was called for a partly traded order that was
\* cancelled
C12_Witness ==
    /\ call.fn = "OnBrokerOrderCallback"
    /\ call.args.order_info.status = "CANCELED"
    /\ call.args.order_info.traded_volume > 0
    /\ call.args.order_info.traded_volume < call.args.order_info.volume
    /\ call.result.Response_Type = CANCEL_ORDER_CONFIRM

(***************************************************************************)
(* Further properties of the bridge routing to the simulator               *)
(***************************************************************************)
\* C13: every TRADE_CONFIRM carries in Price the price at which the trade
\* executed; for a simulator fill that is the fill price after slippage.
C13_TradeConfirmCarriesFillPrice ==
    \A k \in 1 .. Len(respQ) :
        respQ[k].Response_Type = TRADE_CONFIRM =>
            \E b \in DOMAIN g_order_map :
                /\ g_order_map[b].order_id = respQ[k].OrderID
                /\ respQ[k].Price = ttrade[b].price

(***************************************************************************)
(* Further properties of the bridge routing to the CTP plugin              *)
(***************************************************************************)
\* request o found no broker: its broker was gone when it was dequeued
NoBrokerFor(o) ==
    /\ dispatch[o].req # NoReq
    /\ \E k \in 1 .. Len(respQ) :
          respQ[k].OrderID = o /\ respQ[k].Response_Type = ORS_REJECT

\* C14: a request dequeued while no broker is available gets exactly one
\* ORS_REJECT with ErrorCode 1, Quantity = the requested quantity, Side = the
\* requested side and the request's Symbol, OrderID and StrategyID; no
\* cached-order record is created and the ledger is unchanged.
C14_NoBrokerRejectCarriesRequest ==
    \A o \in 1 .. MaxOrders :
        NoBrokerFor(o) =>
            /\ Len(ResponsesOf(o)) = 1
            /\ ResponsesOf(o)[1].Response_Type = ORS_REJECT
            /\ ResponsesOf(o)[1].ErrorCode = 1
            /\ ResponsesOf(o)[1].Quantity = dispatch[o].req.Quantity
            /\ ResponsesOf(o)[1].Side = dispatch[o].req.Transaction_Type
            /\ ResponsesOf(o)[1].Symbol = dispatch[o].req.Symbol
            /\ ResponsesOf(o)[1].StrategyID = dispatch[o].req.StrategyID
            /\ \A b \in DOMAIN g_order_map : g_order_map[b].order_id # o
            /\ delta[o] = ZeroPos

\* SendOrder returned an empty id for request o: the drain thread itself
\* (no callback) enqueued an ORDER_ERROR for it
SendFailedFor(o) ==
    /\ dispatch[o].req # NoReq
    /\ \E k \in 1 .. Len(respQ) :
          /\ respQ[k].OrderID = o
          /\ respQ[k].Response_Type = ORDER_ERROR
          /\ respQ[k].cb = 0

\* C15: when SendOrder returns an empty id, exactly one ORDER_ERROR is
\* enqueued, with the requested quantity and the request's OrderID,
\* StrategyID, Side and Symbol; no cached-order record is created; and the
\* ledger change of the request is what SetCombOffsetFlag debited plus what
\* updatePosition gives back for that synthetic response.
C15_SendFailedErrorAndUnfreeze ==
    \A o \in 1 .. MaxOrders :
        SendFailedFor(o) =>
            LET resp == ResponsesOf(o)[1]
                req == dispatch[o].req
                tmpInfo == [NoCached EXCEPT !.symbol = req.Symbol,
                                            !.side = req.Transaction_Type,
                                            !.openCloseFlag = dispatch[o].flag]
            IN  /\ Len(ResponsesOf(o)) = 1
                /\ resp.Response_Type = ORDER_ERROR
                /\ resp.Quantity = req.Quantity
                /\ resp.Side = req.Transaction_Type
                /\ resp.Symbol = req.Symbol
                /\ resp.StrategyID = req.StrategyID
                /\ \A b \in DOMAIN g_order_map : g_order_map[b].order_id # o
                /\ delta[o] = PosSum(dispatch[o].debit,
                                     PosDiff(updatePosition(ZeroPos, resp, tmpInfo), ZeroPos))

\* C15 witness: SendOrder returned an empty id for a request that had
\* debited the ledger, and the ORDER_ERROR is on the response queue
C15_Witness ==
    \E o \in 1 .. MaxOrders : SendFailedFor(o) /\ dispatch[o].debit # ZeroPos

\* C16: every response on the response queue carries the OrderID and the
\* StrategyID of a request that was dequeued from the request queue before.
C16_ResponseNamesDequeuedRequest ==
    \A k \in 1 .. Len(respQ) :
        /\ respQ[k].OrderID \in DOMAIN dispatch
        /\ dispatch[respQ[k].OrderID].req # NoReq
        /\ dispatch[respQ[k].OrderID].req.OrderID = respQ[k].OrderID
        /\ dispatch[respQ[k].OrderID].req.StrategyID = respQ[k].StrategyID

\* C16 witness: the response queue holds a response built by an order
\* callback and a response built by the drain thread itself
C16_Witness ==
    /\ \E k \in 1 .. Len(respQ) : respQ[k].cb > 0
    /\ \E k \in 1 .. Len(respQ) : respQ[k].cb = 0

(***************************************************************************)
(* Progress of the simulator's orders                                      *)
(***************************************************************************)
TerminalStatuses == {"FILLED", "CANCELED", "REJECTED"}

\* the order callback fires once with each status an order takes: a step
\* that stores order i or changes its status logs exactly that status
CallbackPerTransition(i) ==
    LET before == IF i \in DOMAIN m_orders THEN m_orders[i].status ELSE "none"
        after == IF i \in DOMAIN m_orders' THEN m_orders'[i].status ELSE "none"
        fired(h) == SelectSeq(h, LAMBDA ev : ev \in OrderStatuses)
    IN  IF before # after
        THEN fired(plugEv'[i]) = Append(fired(plugEv[i]), after)
        ELSE fired(plugEv'[i]) = fired(plugEv[i])

\* C17: every order for which the simulator's SendOrder returned an id
\* eventually has a terminal status (FILLED, CANCELED, REJECTED), in each
\* mode that Validate accepts, and the order callback fires exactly once per
\* status transition.
C17_EveryOrderReachesTerminal ==
    /\ \A i \in TaskIds :
          (i \in DOMAIN g_order_map)
              ~> (i \in DOMAIN m_orders /\ m_orders[i].status \in TerminalStatuses)
    /\ [][\A i \in TaskIds : CallbackPerTransition(i)]_vars

(***************************************************************************)
(* Offsets and positions in the simulator                                  *)
(***************************************************************************)
\* C18: an order sent to the simulator with an explicit offset is
\* risk-checked, filled and booked with that offset: the request the
\* simulator holds for the order, and the trade it builds from it, carry the
\* offset the caller put into the OrderRequest (OPEN stays OPEN, CLOSE_TODAY
\* and CLOSE_YESTERDAY are not replaced).
C18_ExplicitOffsetHonoured ==
    \A i \in DOMAIN m_orders :
        LET passed == OffsetOf(dispatch[m_orders[i].request.client_order_id].flag)
        IN  /\ m_orders[i].request.offset = passed
            /\ ttrade[i] # NoTrade => ttrade[i].offset = passed

\* C19: with every offset derived by the simulator's SetOpenClose, the
\* position table never holds a LONG entry and a SHORT entry with volume > 0
\* for the same symbol at the same time.
C19_NeverLongAndShort ==
    \A sym \in Symbols :
        ~ /\ <<sym, "LONG">> \in DOMAIN m_positions
          /\ <<sym, "SHORT">> \in DOMAIN m_positions
          /\ m_positions[<<sym, "LONG">>].volume > 0
          /\ m_positions[<<sym, "SHORT">>].volume > 0

(***************************************************************************)
(* A close larger than either bucket                                       *)
(***************************************************************************)
\* C20: on SHFE, with a long position of yesterday 3 and today 2, a sell of
\* 4 with derived offset closes today 2 and then yesterday 2: the long
\* position ends with today 0 and yesterday 1.
C20_SellFourClosesTodayThenYesterday ==
    ( /\ call.fn = "SetCombOffsetFlag"
      /\ call.args.exchangeType = CHINA_SHFE
      /\ call.args.side = SIDE_SELL
      /\ call.args.qty = 4
      /\ call.args.pos.ONLongPos = 3
      /\ call.args.pos.todayLongPos = 2 )
    => /\ call.result.pos.todayLongPos = 0
       /\ call.result.pos.ONLongPos = 1

(***************************************************************************)
(* The ring filled by completed enqueues and then drained                  *)
(***************************************************************************)
\* number of enqueues made
Enqueued == head - 1

\* the consumer has drained the ring: it polls and finds it empty
Drained == ConsumerStarted /\ cpc = "check" /\ isEmpty

\* the record enqueue number s wrote, as dequeuePtr returns it
RecordOf(s) == <<s, sent[s], sent[s]>>

\* C21: when more than N items were enqueued into the fresh N-slot ring
\* before the consumer (tail = 1) started, the consumer dequeues exactly the
\* last N records, in increasing seqNo, and then finds the ring empty.
C21_OverfilledRingYieldsLastN ==
    (Drained /\ Enqueued > m_size) =>
        /\ Len(deq) = m_size
        /\ \A k \in 1 .. Len(deq) : deq[k] = RecordOf(Enqueued - m_size + k)

\* C22: after N + 1 enqueues into the fresh N-slot ring, the first dequeue
\* of the consumer (tail = 1) returns the item with seqNo N + 1, the one
\* that overwrote slot 1, and not the item with seqNo 1.
C22_FirstDequeueAfterLapIsNewest ==
    (Enqueued = m_size + 1 /\ Len(deq) >= 1) => deq[1] = RecordOf(m_size + 1)

\* C22 witness: N + 1 enqueues were made and the consumer has dequeued once
C22_Witness ==
    Enqueued = m_size + 1 /\ Len(deq) = 1 /\ cpc = "check"

\* C23: after exactly N enqueues into the fresh N-slot ring, the consumer
\* (tail = 1) finds the ring non-empty N times in a row, gets the N values
\* in enqueue order (seqNo 1 .. N), and then finds the ring empty.
C23_FullRingYieldsAllInOrder ==
    (Enqueued = m_size /\ WritersIdle) =>
        /\ Len(deq) <= m_size
        /\ \A k \in 1 .. Len(deq) : deq[k] = RecordOf(k)
        /\ (cpc = "check" /\ Len(deq) < m_size) => ~isEmpty
        /\ (cpc = "check" /\ Len(deq) = m_size) => isEmpty

\* C23 witness: N enqueues were made and the consumer has dequeued N times
C23_Witness ==
    Enqueued = m_size /\ Len(deq) = m_size /\ cpc = "check"

(***************************************************************************)
(* Requests with a Quantity that is not positive                           *)
(***************************************************************************)
\* C24: a new-order request whose Quantity is zero or negative is answered
\* with ORDER_ERROR, changes no ledger bucket and leads to no SendOrder call.
C24_NonPositiveQuantityRefused ==
    (/\ call.fn = "OrderRequestProcessor"
     /\ call.args.req.Request_Type = NEWORDER
     /\ call.args.req.Quantity <= 0) =>
        /\ \E k \in 1 .. Len(call.result.responses) :
              call.result.responses[k].Response_Type = ORDER_ERROR
        /\ call.result.pos = call.args.pos
        /\ ~call.result.send_order

(***************************************************************************)
(* The simulator's risk check and account                                  *)
(***************************************************************************)
\* what the position that a closing request targets holds in the bucket
\* its offset names (0 when there is no such position)
TargetBucket(req) ==
    LET key == PosKey(req.symbol, OppositeDir(req.direction)) IN
    IF key \notin DOMAIN m_positions THEN 0
    ELSE CASE req.offset = "CLOSE_TODAY" -> m_positions[key].today_volume
           [] req.offset = "CLOSE_YESTERDAY" -> m_positions[key].yesterday_volume
           [] OTHER -> m_positions[key].volume

\* the position part of CheckRisk runs on a closing request whose targeted
\* bucket holds less than the requested volume
ChecksShortClose ==
    /\ dpc = "risk_pos"
    /\ dpc' # "risk_pos"
    /\ sreq.offset # "OPEN"
    /\ TargetBucket(sreq) < sreq.volume

\* SendOrder stores the order that CheckRisk refused
StoresRefused == dpc = "store" /\ srej /\ dpc' = "notified"

ReturnsFromUpdateAccount(i) == tpc[i] = "account_margin" /\ tpc'[i] = "done"

\* C26: immediately after every UpdateAccount call,
\* balance = initial_balance + close_profit - commission.
C26_BalanceAfterUpdateAccount ==
    [][\A i \in TaskIds :
          ReturnsFromUpdateAccount(i) =>
              m_balance' = RSub(RAdd(R(initial_balance), m_close_profit'), m_commission')]_vars

\* C26 witness: UpdateAccount has run after a close that realised a profit
\* or loss, and the balance differs from the initial balance
C26_Witness ==
    /\ \E i \in TaskIds : tpc[i] = "done" /\ Len(plugEv[i]) > 0
                          /\ plugEv[i][Len(plugEv[i])] = "TRADE"
    /\ m_close_profit # R(0)
    /\ m_balance = RAdd(R(initial_balance), m_close_profit)
    /\ \A i \in TaskIds : tpc[i] \in {"none", "done"}

\* C27: after every trade has been processed (UpdatePosition, then
\* UpdateAccount), available = balance - margin - commission, with the
\* account values of that moment, also when the trade realised a close
\* profit.
C27_AvailableAfterTrade ==
    [][\A i \in TaskIds :
          ReturnsFromUpdateAccount(i) =>
              m_available' = RSub(RSub(m_balance', m_margin'), m_commission')]_vars

(***************************************************************************)
(* Average price of a simulator position                                   *)
(***************************************************************************)
RECURSIVE SumCost(_)
SumCost(ts) == IF ts = <<>> THEN 0 ELSE ts[1].price * ts[1].volume + SumCost(Tail(ts))

RECURSIVE SumQty(_)
SumQty(ts) == IF ts = <<>> THEN 0 ELSE ts[1].volume + SumQty(Tail(ts))

\* C28: for every open position, avg_price is the quantity-weighted mean of
\* the prices of the opening trades that built it,
\* sum(price_i * qty_i) / sum(qty_i), also when partial closes occurred
\* between the opens.
C28_AvgPriceIsWeightedMean ==
    call.fn = "UpdatePosition" =>
        \A key \in DOMAIN call.positions :
            call.positions[key].volume > 0 =>
                call.positions[key].avg_price
                    = RDivInt(R(SumCost(call.opens[key])), SumQty(call.opens[key]))

(***************************************************************************)
(* The simulator's three mutexes                                           *)
(***************************************************************************)
\* the steps of the thread of order i in which it locks m_order_mutex
LocksOrders(i) == TaskAccept(i) \/ TaskFillCheck(i) \/ TaskFill(i)

\* the steps of the thread of order i in which it locks m_position_mutex:
\* on entry to UpdatePosition, and inside UpdateAccount for the margin sum
LocksPositions(i) == TaskUpdatePosition(i) \/ TaskUpdateAccount(i)

\* C29: no simulator thread acquires the orders mutex while it holds the
\* positions or the account mutex, nor the positions mutex while it holds
\* the account mutex: the order of acquisition is orders, positions, account.
C29_MutexOrder ==
    [][\A i \in TaskIds :
          /\ LocksOrders(i) => (m_position_mutex # {i} /\ m_account_mutex # {i})
          /\ LocksPositions(i) => m_account_mutex # {i}]_vars

\* the mutex the thread of order i is about to lock, by its position in
\* ProcessOrderImmediate
WaitsFor(i) ==
    CASE tpc[i] \in {"accept", "fill_check", "fill"} -> "orders"
      [] tpc[i] \in {"update_position", "account_margin"} -> "positions"
      [] tpc[i] \in {"close_pnl", "update_account"} -> "account"
      [] OTHER -> "none"

\* the thread that holds that mutex
HolderOf(m) ==
    CASE m = "orders" -> m_order_mutex
      [] m = "positions" -> m_position_mutex
      [] m = "account" -> m_account_mutex
      [] OTHER -> {}

\* C30: orders filled concurrently never deadlock the simulator: no two
\* fill threads each wait for a mutex the other holds, so every thread that
\* reached the fill step can go on through UpdatePosition and UpdateAccount
\* to its trade callback.
C30_FillThreadsNeverDeadlock ==
    \A i \in TaskIds : \A j \in TaskIds \ {i} :
        ~ (HolderOf(WaitsFor(i)) = {j} /\ HolderOf(WaitsFor(j)) = {i})

(***************************************************************************)
(* C31: whenever the consumer dequeues a slot and advances its tail to     *)
(* s + 1, the payload it copied is the value passed to the enqueue that    *)
(* claimed sequence number s: both payload words come from that one        *)
(* enqueue, under every interleaving of the writers, lapping ones too.     *)
(***************************************************************************)
C31_DequeuedPayloadIsEnqueuedValue ==
    \A i \in 1 .. Len(deq) :
        LET s == deq[i][1] IN
            /\ s \in 1 .. Len(sent)
            /\ deq[i][2] = sent[s]
            /\ deq[i][3] = sent[s]

(***************************************************************************)
(* C32: while the producers stay at most m_size sequence numbers ahead of  *)
(* the consumer (head - m_tail <= m_size), every enqueued value is         *)
(* dequeued exactly once and in sequence-number order (the i-th dequeue    *)
(* returns sequence number i with the value enqueued under it), nothing    *)
(* is left behind when the ring is found empty with no writer inside       *)
(* enqueue, and the consumer is inside dequeuePtr only on a slot whose     *)
(* writer has stored its seqNo.                                            *)
(***************************************************************************)
\* the writer that claimed sequence number s has returned from enqueue
Published(s) ==
    /\ s \in 1 .. Len(sent)
    /\ m_updates[SlotOf(s)].seqNo = s
    /\ \A w \in Writers : wpc[w] # "idle" => wHead[w] # s

C32_BoundedLagDeliversEachOnceInOrder ==
    /\ head - m_tail <= m_size
    /\ \A i \in 1 .. Len(deq) : deq[i] = <<i, sent[i], sent[i]>>
    /\ m_tail = Len(deq) + 1
    /\ Len(deq) <= Len(sent)
    /\ cpc # "check" => Published(m_tail)
    /\ (WritersIdle /\ cpc = "check" /\ isEmpty) => Len(deq) = Len(sent)

\* the consumer has dequeued past one lap of the ring while a writer was
\* inside enqueue for a later sequence number
C32_Witness ==
    /\ Len(deq) > m_size
    /\ \E w \in Writers : wpc[w] # "idle"
    /\ head - m_tail = m_size

(***************************************************************************)
(* C33: no bridge thread holds the ledger lock (g_posLock) or the          *)
(* cached-order lock (g_orders_mutex) at the moment it calls a plugin's    *)
(* SendOrder, enqueues onto the response queue or sleeps, and no thread    *)
(* ever holds both locks at the same time.                                 *)
(***************************************************************************)
\* thread t is about to call SendOrder, to enqueue a response or to sleep
AtSuspensionPoint(t) ==
    \/ t = DrainT /\ obc[t] = "none"
                  /\ orp \in {"call_send", "reject_enqueue", "failed_enqueue", "sleep"}
    \/ obc[t] = "enqueue"

C33_NoLockAcrossSuspension ==
    \A t \in CallbackThreads :
        /\ AtSuspensionPoint(t) => t \notin g_posLock \cup g_orders_mutex
        /\ ~(t \in g_posLock /\ t \in g_orders_mutex)

\* a callback is about to enqueue its response while another thread holds
\* the ledger lock and a third holds the cached-order lock
C33_Witness ==
    \E t \in CallbackThreads :
        /\ obc[t] = "enqueue"
        /\ g_posLock # {} /\ g_orders_mutex # {}
        /\ t \notin g_posLock \cup g_orders_mutex

(***************************************************************************)
(* C34: once the bridge has enqueued the response to a callback with a     *)
(* terminal status (FILLED, CANCELED, REJECTED, ERROR) of an order, the    *)
(* cached-order map holds no entry of that order any more, and no          *)
(* response of a later callback for the order follows on the queue.        *)
(***************************************************************************)
\* r is the response to a callback with a terminal status
C34_TerminalResponse(r) ==
    /\ r.cb > 0
    /\ \/ r.Response_Type = CANCEL_ORDER_CONFIRM
       \/ r.Response_Type = ORDER_ERROR /\ r.ErrorCode = 1
       \/ r.Response_Type = TRADE_CONFIRM /\ r.Quantity = dispatch[r.OrderID].qty

C34_TerminalResponseUncachesOrder ==
    \A k \in 1 .. Len(respQ) :
        C34_TerminalResponse(respQ[k]) =>
            /\ \A b \in DOMAIN g_order_map : g_order_map[b].order_id # respQ[k].OrderID
            /\ \A l \in k + 1 .. Len(respQ) :
                   respQ[l].cb > 0 => respQ[l].OrderID # respQ[k].OrderID

(***************************************************************************)
(* C35: a callback for a cached order whose status is one of the           *)
(* non-terminal informational ones (SUBMITTING, CANCELING, UNKNOWN) never  *)
(* makes the bridge enqueue an ORDER_ERROR response for the order.         *)
(***************************************************************************)
C35_InformationalStatusIsNoError ==
    (/\ call.fn = "OnBrokerOrderCallback"
     /\ call.args.order_info.status \in {"SUBMITTING", "CANCELING", "UNKNOWN"})
    => call.result.Response_Type # ORDER_ERROR

(***************************************************************************)
(* C36: a dequeued request whose Request_Type is not NEWORDER (a           *)
(* CANCELORDER or MODIFYORDER request, say) never leads to a SendOrder     *)
(* call that creates a new order at a broker and never debits a ledger     *)
(* bucket.                                                                 *)
(***************************************************************************)
C36_OnlyNewOrderIsSent ==
    (/\ call.fn = "OrderRequestProcessor"
     /\ call.args.req.Request_Type # NEWORDER) =>
        /\ ~call.result.send_order
        /\ call.result.pos = call.args.pos

(***************************************************************************)
(* C37: in the simulator the volume of a position (symbol, direction)      *)
(* never exceeds max_position_per_symbol, also while several open orders   *)
(* for the same symbol and direction are sent and not yet filled.          *)
(***************************************************************************)
C37_PositionWithinLimit ==
    \A key \in DOMAIN m_positions :
        m_positions[key].volume <= max_position_per_symbol

(***************************************************************************)
(* C38: updatePosition leaves the four buckets of every symbol unchanged   *)
(* for a NEW_ORDER_CONFIRM, for a TRADE_CONFIRM of an order cached with a  *)
(* close flag, and for a reject or cancel of an order cached with the      *)
(* open flag; in every other case it changes buckets of the cached         *)
(* order's symbol only.                                                    *)
(***************************************************************************)
\* the cases in which nothing is to change
C38_NoOp(resp, info) ==
    \/ resp.Response_Type = NEW_ORDER_CONFIRM
    \/ /\ resp.Response_Type = TRADE_CONFIRM
       /\ info.openCloseFlag \in {CLOSE_TODAY_FLAG, CLOSE_YESTD_FLAG}
    \/ /\ resp.Response_Type \in {ORDER_ERROR, ORS_REJECT, RMS_REJECT, CANCEL_ORDER_CONFIRM}
       /\ info.openCloseFlag = OPEN_ORDER

C38_LedgerFrame ==
    call.fn = "updatePosition" =>
        /\ C38_NoOp(call.args.resp, call.args.info) => call.result = call.args.book
        /\ \A s \in LedgerSymbols :
               s # call.args.info.symbol => call.result[s] = call.args.book[s]

\* a trade of an order cached as open has credited its symbol while the
\* other symbol holds positions
C38_Witness ==
    /\ call.fn = "updatePosition"
    /\ call.args.resp.Response_Type = TRADE_CONFIRM
    /\ call.args.info.openCloseFlag = OPEN_ORDER
    /\ call.result[call.args.info.symbol] # call.args.book[call.args.info.symbol]
    /\ \E s \in LedgerSymbols :
          s # call.args.info.symbol /\ call.args.book[s].todayLongPos > 0

(***************************************************************************)
(* C39: after any sequence of open and close trades with positive volume,  *)
(* every entry of the simulator's position table has                       *)
(* volume = today_volume + yesterday_volume and volume >= 1, and a call    *)
(* of UpdatePosition deletes an entry exactly when its trade is a close    *)
(* of that entry for at least the entry's whole volume.                    *)
(***************************************************************************)
C39_EntriesConsistent ==
    call.fn = "UpdatePosition" =>
        \A key \in DOMAIN call.positions :
            /\ call.positions[key].volume
                   = call.positions[key].today_volume + call.positions[key].yesterday_volume
            /\ call.positions[key].volume >= 1

\* the trade booked by the step deletes entry key of the table before it
C39_ClosesWhole(before, key, trade) ==
    /\ trade.offset # "OPEN"
    /\ key = PosKey(trade.symbol, OppositeDir(trade.direction))
    /\ trade.volume >= before[key].volume

C39_DeletedExactlyAtZero ==
    call'.fn = "UpdatePosition" =>
        LET before == IF call = NoCall THEN <<>> ELSE call.positions
            trade == call'.trades[Len(call'.trades)]
        IN  \A key \in DOMAIN before :
                (key \notin DOMAIN call'.positions) <=> C39_ClosesWhole(before, key, trade)

C39_PositionTableInvariant ==
    /\ []C39_EntriesConsistent
    /\ [][C39_DeletedExactlyAtZero]_vars

\* an entry opened with volume 2 was closed in two trades of 1 and is gone
C39_Witness ==
    /\ call.fn = "UpdatePosition"
    /\ Len(call.trades) = 3
    /\ call.trades[1].offset = "OPEN" /\ call.trades[1].volume = 2
    /\ call.trades[2].offset # "OPEN" /\ call.trades[2].volume = 1
    /\ call.trades[3].offset # "OPEN" /\ call.trades[3].volume = 1
    /\ call.positions = <<>>

(***************************************************************************)
(* C40: a call of QueryAccount, QueryOrders or QueryTrades made while      *)
(* logged in always returns: a call that has started comes back with true  *)
(* or false, and the calling thread never stays blocked on m_query_mutex.  *)
(***************************************************************************)
C40_QueryAlwaysReturns ==
    (qpc = "lock") ~> (qpc = "idle" /\ qres \in {"true", "false"})
====
